---- MODULE Spec2Model ----
(***************************************************************************)
(* Model of the fruits feature-extraction library: the word algebra        *)
(* (fruits/core/wording.py), the iterated sums a word defines, and the     *)
(* fit-then-forward components (PPV/PPVC sieves, STD, INC and DOT          *)
(* preparateurs, the branch that chains them).                             *)
(*                                                                         *)
(* Python strings are sequences of one-character strings.  Python lists    *)
(* are objects with identity: a word holds references (object ids) into    *)
(* `heap`, so that aliasing between words is visible.                      *)
(***************************************************************************)
EXTENDS Integers, Sequences, FiniteSets, TLC

VARIABLES
    heap,     \* object id -> content of a list object (an exponent vector)
    words,    \* variable name -> the word object bound to it
    hashing,  \* how the string hashes of this interpreter run order a set
    last,     \* the last call made on the word algebra and how it ended
    iss,      \* one run of the iterated-sums engine
    comp,     \* the fit/forward components: sieves, preparateurs, branch
    res,      \* outcome of the last call on a component
    fruit,    \* a Fruit: its branches and the cursor on the current one
    loops     \* the iterator index of the word w and the loops that run over w

vars == <<heap, words, hashing, last, iss, comp, res, fruit, loops>>

-----------------------------------------------------------------------------
(* Bounds *)

MaxLetters == 3        \* bracket groups a word's name may hold
MaxDigit == 3          \* digits 0..MaxDigit occur in input strings
MaxGroups == 2         \* bracket groups per well-formed input string
MaxJunk == 1           \* every string up to this length is tried as input

-----------------------------------------------------------------------------
(* Python helpers *)

Max(a, b) == IF a >= b THEN a ELSE b
Min(a, b) == IF a <= b THEN a ELSE b

RECURSIVE SeqMax(_)
SeqMax(s) == IF Len(s) = 1 THEN s[1] ELSE Max(s[1], SeqMax(Tail(s)))

\* [0 for i in range(n)]
RECURSIVE Zeros(_)
Zeros(n) == IF n <= 0 THEN <<>> ELSE Append(Zeros(n - 1), 0)

\* s.count(x)
Count(s, x) == Cardinality({i \in 1..Len(s) : s[i] = x})

RECURSIVE Flatten(_)
Flatten(ss) == IF ss = <<>> THEN <<>> ELSE Head(ss) \o Flatten(Tail(ss))

AllDigits == <<"0", "1", "2", "3", "4", "5", "6", "7", "8", "9">>

\* The decimal digits of Unicode 14.0 (category Nd), which come in rows of
\* ten with the values 0 to 9.  A character outside ASCII is written by its
\* code point.
DigitRows == <<
    AllDigits,
    <<"U+0660", "U+0661", "U+0662", "U+0663", "U+0664",
      "U+0665", "U+0666", "U+0667", "U+0668", "U+0669">>,
    <<"U+06F0", "U+06F1", "U+06F2", "U+06F3", "U+06F4",
      "U+06F5", "U+06F6", "U+06F7", "U+06F8", "U+06F9">>,
    <<"U+07C0", "U+07C1", "U+07C2", "U+07C3", "U+07C4",
      "U+07C5", "U+07C6", "U+07C7", "U+07C8", "U+07C9">>,
    <<"U+0966", "U+0967", "U+0968", "U+0969", "U+096A",
      "U+096B", "U+096C", "U+096D", "U+096E", "U+096F">>,
    <<"U+09E6", "U+09E7", "U+09E8", "U+09E9", "U+09EA",
      "U+09EB", "U+09EC", "U+09ED", "U+09EE", "U+09EF">>,
    <<"U+0A66", "U+0A67", "U+0A68", "U+0A69", "U+0A6A",
      "U+0A6B", "U+0A6C", "U+0A6D", "U+0A6E", "U+0A6F">>,
    <<"U+0AE6", "U+0AE7", "U+0AE8", "U+0AE9", "U+0AEA",
      "U+0AEB", "U+0AEC", "U+0AED", "U+0AEE", "U+0AEF">>,
    <<"U+0B66", "U+0B67", "U+0B68", "U+0B69", "U+0B6A",
      "U+0B6B", "U+0B6C", "U+0B6D", "U+0B6E", "U+0B6F">>,
    <<"U+0BE6", "U+0BE7", "U+0BE8", "U+0BE9", "U+0BEA",
      "U+0BEB", "U+0BEC", "U+0BED", "U+0BEE", "U+0BEF">>,
    <<"U+0C66", "U+0C67", "U+0C68", "U+0C69", "U+0C6A",
      "U+0C6B", "U+0C6C", "U+0C6D", "U+0C6E", "U+0C6F">>,
    <<"U+0CE6", "U+0CE7", "U+0CE8", "U+0CE9", "U+0CEA",
      "U+0CEB", "U+0CEC", "U+0CED", "U+0CEE", "U+0CEF">>,
    <<"U+0D66", "U+0D67", "U+0D68", "U+0D69", "U+0D6A",
      "U+0D6B", "U+0D6C", "U+0D6D", "U+0D6E", "U+0D6F">>,
    <<"U+0DE6", "U+0DE7", "U+0DE8", "U+0DE9", "U+0DEA",
      "U+0DEB", "U+0DEC", "U+0DED", "U+0DEE", "U+0DEF">>,
    <<"U+0E50", "U+0E51", "U+0E52", "U+0E53", "U+0E54",
      "U+0E55", "U+0E56", "U+0E57", "U+0E58", "U+0E59">>,
    <<"U+0ED0", "U+0ED1", "U+0ED2", "U+0ED3", "U+0ED4",
      "U+0ED5", "U+0ED6", "U+0ED7", "U+0ED8", "U+0ED9">>,
    <<"U+0F20", "U+0F21", "U+0F22", "U+0F23", "U+0F24",
      "U+0F25", "U+0F26", "U+0F27", "U+0F28", "U+0F29">>,
    <<"U+1040", "U+1041", "U+1042", "U+1043", "U+1044",
      "U+1045", "U+1046", "U+1047", "U+1048", "U+1049">>,
    <<"U+1090", "U+1091", "U+1092", "U+1093", "U+1094",
      "U+1095", "U+1096", "U+1097", "U+1098", "U+1099">>,
    <<"U+17E0", "U+17E1", "U+17E2", "U+17E3", "U+17E4",
      "U+17E5", "U+17E6", "U+17E7", "U+17E8", "U+17E9">>,
    <<"U+1810", "U+1811", "U+1812", "U+1813", "U+1814",
      "U+1815", "U+1816", "U+1817", "U+1818", "U+1819">>,
    <<"U+1946", "U+1947", "U+1948", "U+1949", "U+194A",
      "U+194B", "U+194C", "U+194D", "U+194E", "U+194F">>,
    <<"U+19D0", "U+19D1", "U+19D2", "U+19D3", "U+19D4",
      "U+19D5", "U+19D6", "U+19D7", "U+19D8", "U+19D9">>,
    <<"U+1A80", "U+1A81", "U+1A82", "U+1A83", "U+1A84",
      "U+1A85", "U+1A86", "U+1A87", "U+1A88", "U+1A89">>,
    <<"U+1A90", "U+1A91", "U+1A92", "U+1A93", "U+1A94",
      "U+1A95", "U+1A96", "U+1A97", "U+1A98", "U+1A99">>,
    <<"U+1B50", "U+1B51", "U+1B52", "U+1B53", "U+1B54",
      "U+1B55", "U+1B56", "U+1B57", "U+1B58", "U+1B59">>,
    <<"U+1BB0", "U+1BB1", "U+1BB2", "U+1BB3", "U+1BB4",
      "U+1BB5", "U+1BB6", "U+1BB7", "U+1BB8", "U+1BB9">>,
    <<"U+1C40", "U+1C41", "U+1C42", "U+1C43", "U+1C44",
      "U+1C45", "U+1C46", "U+1C47", "U+1C48", "U+1C49">>,
    <<"U+1C50", "U+1C51", "U+1C52", "U+1C53", "U+1C54",
      "U+1C55", "U+1C56", "U+1C57", "U+1C58", "U+1C59">>,
    <<"U+A620", "U+A621", "U+A622", "U+A623", "U+A624",
      "U+A625", "U+A626", "U+A627", "U+A628", "U+A629">>,
    <<"U+A8D0", "U+A8D1", "U+A8D2", "U+A8D3", "U+A8D4",
      "U+A8D5", "U+A8D6", "U+A8D7", "U+A8D8", "U+A8D9">>,
    <<"U+A900", "U+A901", "U+A902", "U+A903", "U+A904",
      "U+A905", "U+A906", "U+A907", "U+A908", "U+A909">>,
    <<"U+A9D0", "U+A9D1", "U+A9D2", "U+A9D3", "U+A9D4",
      "U+A9D5", "U+A9D6", "U+A9D7", "U+A9D8", "U+A9D9">>,
    <<"U+A9F0", "U+A9F1", "U+A9F2", "U+A9F3", "U+A9F4",
      "U+A9F5", "U+A9F6", "U+A9F7", "U+A9F8", "U+A9F9">>,
    <<"U+AA50", "U+AA51", "U+AA52", "U+AA53", "U+AA54",
      "U+AA55", "U+AA56", "U+AA57", "U+AA58", "U+AA59">>,
    <<"U+ABF0", "U+ABF1", "U+ABF2", "U+ABF3", "U+ABF4",
      "U+ABF5", "U+ABF6", "U+ABF7", "U+ABF8", "U+ABF9">>,
    <<"U+FF10", "U+FF11", "U+FF12", "U+FF13", "U+FF14",
      "U+FF15", "U+FF16", "U+FF17", "U+FF18", "U+FF19">>,
    <<"U+104A0", "U+104A1", "U+104A2", "U+104A3", "U+104A4",
      "U+104A5", "U+104A6", "U+104A7", "U+104A8", "U+104A9">>,
    <<"U+10D30", "U+10D31", "U+10D32", "U+10D33", "U+10D34",
      "U+10D35", "U+10D36", "U+10D37", "U+10D38", "U+10D39">>,
    <<"U+11066", "U+11067", "U+11068", "U+11069", "U+1106A",
      "U+1106B", "U+1106C", "U+1106D", "U+1106E", "U+1106F">>,
    <<"U+110F0", "U+110F1", "U+110F2", "U+110F3", "U+110F4",
      "U+110F5", "U+110F6", "U+110F7", "U+110F8", "U+110F9">>,
    <<"U+11136", "U+11137", "U+11138", "U+11139", "U+1113A",
      "U+1113B", "U+1113C", "U+1113D", "U+1113E", "U+1113F">>,
    <<"U+111D0", "U+111D1", "U+111D2", "U+111D3", "U+111D4",
      "U+111D5", "U+111D6", "U+111D7", "U+111D8", "U+111D9">>,
    <<"U+112F0", "U+112F1", "U+112F2", "U+112F3", "U+112F4",
      "U+112F5", "U+112F6", "U+112F7", "U+112F8", "U+112F9">>,
    <<"U+11450", "U+11451", "U+11452", "U+11453", "U+11454",
      "U+11455", "U+11456", "U+11457", "U+11458", "U+11459">>,
    <<"U+114D0", "U+114D1", "U+114D2", "U+114D3", "U+114D4",
      "U+114D5", "U+114D6", "U+114D7", "U+114D8", "U+114D9">>,
    <<"U+11650", "U+11651", "U+11652", "U+11653", "U+11654",
      "U+11655", "U+11656", "U+11657", "U+11658", "U+11659">>,
    <<"U+116C0", "U+116C1", "U+116C2", "U+116C3", "U+116C4",
      "U+116C5", "U+116C6", "U+116C7", "U+116C8", "U+116C9">>,
    <<"U+11730", "U+11731", "U+11732", "U+11733", "U+11734",
      "U+11735", "U+11736", "U+11737", "U+11738", "U+11739">>,
    <<"U+118E0", "U+118E1", "U+118E2", "U+118E3", "U+118E4",
      "U+118E5", "U+118E6", "U+118E7", "U+118E8", "U+118E9">>,
    <<"U+11950", "U+11951", "U+11952", "U+11953", "U+11954",
      "U+11955", "U+11956", "U+11957", "U+11958", "U+11959">>,
    <<"U+11C50", "U+11C51", "U+11C52", "U+11C53", "U+11C54",
      "U+11C55", "U+11C56", "U+11C57", "U+11C58", "U+11C59">>,
    <<"U+11D50", "U+11D51", "U+11D52", "U+11D53", "U+11D54",
      "U+11D55", "U+11D56", "U+11D57", "U+11D58", "U+11D59">>,
    <<"U+11DA0", "U+11DA1", "U+11DA2", "U+11DA3", "U+11DA4",
      "U+11DA5", "U+11DA6", "U+11DA7", "U+11DA8", "U+11DA9">>,
    <<"U+16A60", "U+16A61", "U+16A62", "U+16A63", "U+16A64",
      "U+16A65", "U+16A66", "U+16A67", "U+16A68", "U+16A69">>,
    <<"U+16AC0", "U+16AC1", "U+16AC2", "U+16AC3", "U+16AC4",
      "U+16AC5", "U+16AC6", "U+16AC7", "U+16AC8", "U+16AC9">>,
    <<"U+16B50", "U+16B51", "U+16B52", "U+16B53", "U+16B54",
      "U+16B55", "U+16B56", "U+16B57", "U+16B58", "U+16B59">>,
    <<"U+1D7CE", "U+1D7CF", "U+1D7D0", "U+1D7D1", "U+1D7D2",
      "U+1D7D3", "U+1D7D4", "U+1D7D5", "U+1D7D6", "U+1D7D7">>,
    <<"U+1D7D8", "U+1D7D9", "U+1D7DA", "U+1D7DB", "U+1D7DC",
      "U+1D7DD", "U+1D7DE", "U+1D7DF", "U+1D7E0", "U+1D7E1">>,
    <<"U+1D7E2", "U+1D7E3", "U+1D7E4", "U+1D7E5", "U+1D7E6",
      "U+1D7E7", "U+1D7E8", "U+1D7E9", "U+1D7EA", "U+1D7EB">>,
    <<"U+1D7EC", "U+1D7ED", "U+1D7EE", "U+1D7EF", "U+1D7F0",
      "U+1D7F1", "U+1D7F2", "U+1D7F3", "U+1D7F4", "U+1D7F5">>,
    <<"U+1D7F6", "U+1D7F7", "U+1D7F8", "U+1D7F9", "U+1D7FA",
      "U+1D7FB", "U+1D7FC", "U+1D7FD", "U+1D7FE", "U+1D7FF">>,
    <<"U+1E140", "U+1E141", "U+1E142", "U+1E143", "U+1E144",
      "U+1E145", "U+1E146", "U+1E147", "U+1E148", "U+1E149">>,
    <<"U+1E2F0", "U+1E2F1", "U+1E2F2", "U+1E2F3", "U+1E2F4",
      "U+1E2F5", "U+1E2F6", "U+1E2F7", "U+1E2F8", "U+1E2F9">>,
    <<"U+1E950", "U+1E951", "U+1E952", "U+1E953", "U+1E954",
      "U+1E955", "U+1E956", "U+1E957", "U+1E958", "U+1E959">>,
    <<"U+1FBF0", "U+1FBF1", "U+1FBF2", "U+1FBF3", "U+1FBF4",
      "U+1FBF5", "U+1FBF6", "U+1FBF7", "U+1FBF8", "U+1FBF9">> >>

\* the characters that are decimal digits, and int(c) of each
DigitChars == UNION {{DigitRows[r][i] : i \in 1..10} : r \in 1..Len(DigitRows)}
IntOf == [c \in DigitChars |->
            (CHOOSE i \in 1..10 : \E r \in 1..Len(DigitRows) : DigitRows[r][i] = c) - 1]

\* \d of a str pattern: every Unicode decimal digit
IsDigit(ch) == ch \in DigitChars

\* int(letter) for a one-digit string
DigitVal(ch) == IntOf[ch]

\* re.fullmatch(r"(\[\d+\])+", string): st is the position inside a group
RECURSIVE MatchFrom(_, _, _)
MatchFrom(s, i, st) ==
    IF i > Len(s) THEN st = "start" /\ Len(s) > 0
    ELSE CASE st = "start"  -> s[i] = "[" /\ MatchFrom(s, i + 1, "open")
           [] st = "open"   -> IsDigit(s[i]) /\ MatchFrom(s, i + 1, "digits")
           [] st = "digits" -> \/ IsDigit(s[i]) /\ MatchFrom(s, i + 1, "digits")
                               \/ s[i] = "]" /\ MatchFrom(s, i + 1, "start")

FullMatch(s) == MatchFrom(s, 1, "start")

\* string.split(sep) for a one-character separator
RECURSIVE SplitFrom(_, _, _, _)
SplitFrom(s, sep, i, cur) ==
    IF i > Len(s) THEN <<cur>>
    ELSE IF s[i] = sep THEN <<cur>> \o SplitFrom(s, sep, i + 1, <<>>)
    ELSE SplitFrom(s, sep, i + 1, Append(cur, s[i]))

Split(s, sep) == SplitFrom(s, sep, 1, <<>>)

\* x[1:]
DropFirst(x) == IF x = <<>> THEN <<>> ELSE Tail(x)

\* xs[:-1]
DropLast(xs) == IF xs = <<>> THEN <<>> ELSE SubSeq(xs, 1, Len(xs) - 1)

\* els_raw = [x[1:] for x in string.split("]")][:-1]
ElsRaw(s) == LET parts == Split(s, "]")
             IN  DropLast([i \in 1..Len(parts) |-> DropFirst(parts[i])])

\* max([int(letter) for el_raw in els_raw for letter in el_raw])
LocalMaxDim(raw) == LET all == Flatten(raw)
                    IN  SeqMax([i \in 1..Len(all) |-> DigitVal(all[i])])

-----------------------------------------------------------------------------
(* Words: fruits/core/wording.py *)

WordIds == {"w", "c", "g"}

MaxObjs == 3 * MaxLetters
ObjIds == 1..MaxObjs

\* alpha is a Python float or a list of floats; floats are kept in tenths
FloatAlpha(a) == [kind |-> "float", val |-> <<a>>]
ListAlpha(as) == [kind |-> "list", val |-> as]

\* a name that is bound to no object
NoWord == [cls |-> "none", name |-> <<>>, max_dim |-> 0, els |-> <<>>,
           alpha |-> FloatAlpha(0)]

\* Word.__init__(name="")
WordInit(class) == [cls |-> class, name |-> <<>>, max_dim |-> 0, els |-> <<>>,
                    alpha |-> FloatAlpha(0)]

\* Word.__len__
WordLen(wd) == Len(wd.els)

\* A Word is its own iterator: __iter__ and __next__ keep the position in
\* the attribute _el_iterator_index of the word.  loops.index is that
\* attribute of the word w, loops.of[p] what the loop p has been handed.
LoopIds == {"outer", "inner"}
NoLoops == [index |-> -1, of |-> [p \in LoopIds |-> [phase |-> "idle", got |-> <<>>]]]

\* Word.__iter__, called when loop p starts
WordIter(ls, p) == [ls EXCEPT !.index = -1, !.of[p].phase = "run"]

\* Word.__next__, called by loop p: the next letter, or StopIteration
WordNext(wd, ls, p) ==
    IF ls.index < Len(wd.els) - 1
    THEN [ls EXCEPT !.index = @ + 1, !.of[p].got = Append(@, wd.els[ls.index + 2])]
    ELSE [ls EXCEPT !.of[p].phase = "done"]

\* the exponent vectors of a word, read through its references
Letters(wd, hp) == [i \in 1..Len(wd.els) |-> hp[wd.els[i]]]

\* Word.alpha (getter)
AlphaGet(wd) ==
    IF wd.alpha.kind = "float"
    THEN [i \in 1..(WordLen(wd) - 1) |-> wd.alpha.val[1]]
    ELSE wd.alpha.val

\* a setter that stores whatever list or float it is given
AlphaSetUnchecked(wd, a) ==
    IF a.kind \in {"list", "float"}
    THEN [err |-> "ok", word |-> [wd EXCEPT !.alpha = a]]
    ELSE [err |-> "ValueError", word |-> wd]

\* Word.alpha (setter): the outcome and the word afterwards
AlphaSet(wd, a) ==
    IF a.kind = "list"
    THEN IF Len(a.val) # WordLen(wd) - 1
         THEN [err |-> "ValueError", word |-> wd]
         ELSE [err |-> "ok", word |-> [wd EXCEPT !.alpha = a]]
    ELSE IF a.kind # "float"
         THEN [err |-> "ValueError", word |-> wd]
         ELSE [err |-> "ok", word |-> [wd EXCEPT !.alpha = a]]

\* object ids some word refers to
Referenced(ws) == UNION {{ws[x].els[i] : i \in 1..Len(ws[x].els)} : x \in WordIds}

\* the n smallest ids of a set, ascending: the ids new list objects get
RECURSIVE Smallest(_, _)
Smallest(S, n) ==
    IF n = 0 \/ S = {} THEN <<>>
    ELSE LET m == CHOOSE a \in S : \A b \in S : a <= b
         IN  <<m>> \o Smallest(S \ {m}, n - 1)

\* objects no word refers to any more are garbage
Collect(hp, ws) == [o \in ObjIds |-> IF o \in Referenced(ws) THEN hp[o] ELSE <<>>]

\* for el in self._extended_letters: for i in range(n): el.append(0)
RECURSIVE PadAll(_, _, _)
PadAll(hp, els, n) ==
    IF els = <<>> THEN hp
    ELSE PadAll([hp EXCEPT ![Head(els)] = @ \o Zeros(n)], Tail(els), n)

\* el[idx] = v with Python's index rule (negative counts from the end)
PySet(el, idx, v) ==
    LET pos == IF idx >= 0 THEN idx + 1 ELSE Len(el) + idx + 1
    IN  IF pos >= 1 /\ pos <= Len(el)
        THEN [ok |-> TRUE, el |-> [el EXCEPT ![pos] = v]]
        ELSE [ok |-> FALSE, el |-> el]

\* set(l for l in el_raw): the interpreter keeps a set in a hash table and
\* yields it slot by slot, so the order of the distinct letters depends on
\* the string hashes, which are drawn anew for every interpreter run, and,
\* when letters meet in a slot, on the order of insertion.  hashing[c] is
\* hash(c) in this run as an unsigned number in base 32, lowest digit first.
\* A table is the sequence of its slots, "" a slot not in use; slot i is
\* table[i + 1].
SetMinSize == 8
LinearProbes == 9

\* a table of n slots, none in use
RECURSIVE NewTable(_)
NewTable(n) == IF n <= 0 THEN <<>> ELSE Append(NewTable(n - 1), "")

\* perturb & mask and perturb >> 5, for a number in base 32
LowBits(perturb, size) ==
    IF perturb = <<>> THEN 0
    ELSE (Head(perturb) + 32 * (IF Len(perturb) > 1 THEN perturb[2] ELSE 0)) % size

\* the slot a key that is not in the table is put into: the slot of its hash,
\* the slots next to it while they are not too close to the end of the
\* table, then i = (i * 5 + 1 + perturb) & mask with perturb >>= 5
RECURSIVE FreeSlot(_, _, _)
FreeSlot(table, i, perturb) ==
    LET upto == IF i + LinearProbes <= Len(table) - 1 THEN i + LinearProbes ELSE i
        free == {j \in i..upto : table[j + 1] = ""}
    IN  IF free # {} THEN CHOOSE j \in free : \A k \in free : j <= k
        ELSE FreeSlot(table,
                      (i * 5 + 1 + LowBits(DropFirst(perturb), Len(table))) % Len(table),
                      DropFirst(perturb))

SetInsertClean(table, key, h) ==
    [table EXCEPT ![FreeSlot(table, LowBits(h[key], Len(table)), h[key]) + 1] = key]

\* the keys of a table, slot by slot
Keys(table) == SelectSeq(table, LAMBDA k : k # "")

RECURSIVE InsertAll(_, _, _)
InsertAll(table, keys, h) ==
    IF keys = <<>> THEN table
    ELSE InsertAll(SetInsertClean(table, Head(keys), h), Tail(keys), h)

RECURSIVE NewSize(_, _)
NewSize(size, minused) == IF size > minused THEN size ELSE NewSize(2 * size, minused)

\* a table that is three fifths full is replaced by one of at least four
\* times the number of its keys, which are put in again slot by slot
SetResize(table, h) ==
    InsertAll(NewTable(NewSize(SetMinSize, 4 * Len(Keys(table)))), Keys(table), h)

\* set.add(key)
SetAdd(table, key, h) ==
    IF \E i \in 1..Len(table) : table[i] = key THEN table
    ELSE LET added == SetInsertClean(table, key, h)
         IN  IF Len(Keys(added)) * 5 < (Len(table) - 1) * 3 THEN added
             ELSE SetResize(added, h)

RECURSIVE SetOf(_, _, _)
SetOf(table, s, h) ==
    IF s = <<>> THEN table ELSE SetOf(SetAdd(table, Head(s), h), Tail(s), h)

\* the letters in the order in which set(l for l in el_raw) yields them
IterOrder(el_raw, h) == Keys(SetOf(NewTable(SetMinSize), el_raw, h))

\* for letter in set(...): el[int(letter)-1] = el_raw.count(letter)
RECURSIVE FillLetter(_, _, _)
FillLetter(el, el_raw, order) ==
    IF order = <<>> THEN [ok |-> TRUE, el |-> el]
    ELSE LET r == PySet(el, DigitVal(Head(order)) - 1, Count(el_raw, Head(order)))
         IN  IF r.ok THEN FillLetter(r.el, el_raw, Tail(order)) ELSE r

\* for el_raw in els_raw: build el and append it; stops at an IndexError
RECURSIVE AppendLetters(_, _, _, _, _, _)
AppendLetters(wd, hp, raw, max_dim, h, fresh) ==
    IF raw = <<>> THEN [err |-> "ok", word |-> wd, heap |-> hp]
    ELSE LET r == FillLetter(Zeros(max_dim), Head(raw),
                             IterOrder(Head(raw), h))
         IN  IF ~r.ok THEN [err |-> "IndexError", word |-> wd, heap |-> hp]
             ELSE AppendLetters([wd EXCEPT !.els = Append(@, Head(fresh))],
                                [hp EXCEPT ![Head(fresh)] = r.el],
                                Tail(raw), max_dim, h, Tail(fresh))

\* a call argument: a string or some other object
Str(s) == [isstr |-> TRUE, chars |-> s]
NotStr == [isstr |-> FALSE, chars |-> <<>>]

\* what the guard of SimpleWord.multiply lets through
Accepted(arg) == arg.isstr /\ FullMatch(arg.chars)

NGroups(s) == Count(s, "]")

\* a multiply that appends to the name before it looks at the argument
SimpleMultiplyNameFirst(wd, hp, arg, h, fresh) ==
    LET named == [wd EXCEPT !.name = @ \o arg.chars]
    IN  IF ~Accepted(arg) THEN [err |-> "ValueError", word |-> named, heap |-> hp]
        ELSE AppendLetters(named, hp, ElsRaw(arg.chars), LocalMaxDim(ElsRaw(arg.chars)),
                           h, fresh)

\* SimpleWord.multiply(string); h is the hashing of the run, fresh are the
\* ids of the lists the call creates
SimpleMultiply(wd, hp, arg, h, fresh) ==
    IF ~Accepted(arg) THEN [err |-> "ValueError", word |-> wd, heap |-> hp]
    ELSE LET named   == [wd EXCEPT !.name = @ \o arg.chars]
             els_raw == ElsRaw(arg.chars)
             max_dim == LocalMaxDim(els_raw)
             grown   == max_dim > wd.max_dim
             padded  == IF grown THEN PadAll(hp, wd.els, max_dim - wd.max_dim)
                        ELSE hp
             dimmed  == IF grown THEN [named EXCEPT !.max_dim = max_dim]
                        ELSE named
         IN  AppendLetters(dimmed, padded, els_raw, max_dim, h, fresh)

\* SimpleWord.__init__(string)
SimpleNew(hp, arg, h, fresh) == SimpleMultiply(WordInit("SimpleWord"), hp, arg, h, fresh)

\* [el.copy() for el in self._extended_letters] into the lists `fresh`
RECURSIVE CopyLists(_, _, _)
CopyLists(hp, els, fresh) ==
    IF els = <<>> THEN hp
    ELSE CopyLists([hp EXCEPT ![Head(fresh)] = hp[Head(els)]], Tail(els), Tail(fresh))

\* a copy that takes over the original's letter lists
SimpleCopyShallow(wd, hp, h, fresh) ==
    [err |-> "ok", word |-> wd, heap |-> hp]

\* SimpleWord.copy(): the word is built anew from the name, then its letters
\* are replaced by copies of the original's lists
SimpleCopy(wd, hp, h, fresh) ==
    LET made == SimpleNew(hp, Str(wd.name), h, fresh)
    IN  IF made.err # "ok" THEN [err |-> made.err, word |-> NoWord, heap |-> hp]
        ELSE [err |-> "ok",
              word |-> [made.word EXCEPT !.els = SubSeq(fresh, 1, Len(wd.els))],
              heap |-> CopyLists(hp, wd.els, fresh)]

\* Word.copy()
WordCopy(wd, hp, fresh) ==
    [err |-> "ok",
     word |-> [WordInit("Word") EXCEPT !.name = wd.name,
                                       !.els = SubSeq(fresh, 1, Len(wd.els))],
     heap |-> CopyLists(hp, wd.els, fresh)]

\* Word.multiply(other) for another Word: the other's letters are appended
WordMultiply(wd, other) ==
    IF other.cls \in {"Word", "SimpleWord"}
    THEN [err |-> "ok", word |-> [wd EXCEPT !.els = @ \o other.els]]
    ELSE [err |-> "TypeError", word |-> wd]

\* SimpleWord.__eq__(self, other)
SimpleWordEq(self, other, hp) ==
    IF other.cls # "SimpleWord" THEN [err |-> "TypeError", val |-> FALSE]
    ELSE [err |-> "ok", val |-> Letters(self, hp) = Letters(other, hp)]

\* a == b for a word a: SimpleWord.__eq__(a, b) when a is a SimpleWord; when
\* only b is one, b is of a subclass of the class of a that has its own
\* __eq__, and SimpleWord.__eq__(b, a) is called first; else Word.__eq__
WordEq(a, b, hp) ==
    IF a.cls = "SimpleWord" THEN SimpleWordEq(a, b, hp)
    ELSE IF b.cls = "SimpleWord" THEN SimpleWordEq(b, a, hp)
    ELSE [err |-> "ok", val |-> FALSE]

-----------------------------------------------------------------------------
(* Iterated sums: the engine fruits.core.ISS, described in the engine     *)
(* section of the specification and in the docstring of Word.  Series are  *)
(* integers; for a series given in units u a word with n letters in all    *)
(* yields sums in units u^n.                                               *)

RECURSIVE Pow(_, _)
Pow(x, e) == IF e = 0 THEN 1 ELSE x * Pow(x, e - 1)

RECURSIVE SumTo(_, _)
SumTo(f, n) == IF n = 0 THEN 0 ELSE f[n] + SumTo(f, n - 1)

\* numpy.cumsum
CumSum(a) == [t \in 1..Len(a) |-> SumTo(a, t)]

\* value of one extended letter at time t: the product over the dimensions
\* d of X[d][t] to the power of the letter's exponent for d
RECURSIVE LetterProd(_, _, _, _)
LetterProd(el, X, t, d) ==
    IF d = 0 THEN 1 ELSE Pow(X[d][t], el[d]) * LetterProd(el, X, t, d - 1)

LetterSeries(el, X) == [t \in 1..Len(X[1]) |-> LetterProd(el, X, t, Len(el))]

\* a letter can be evaluated if every dimension it uses exists in X
Evaluable(el, X) == \A d \in 1..Len(el) : el[d] > 0 => d <= Len(X)

\* a step that multiplies L_k(t) with the sum over the strictly earlier
\* indices, S_(k-1)(t - 1), and with 0 at the first index
ISSLetterEarlier(S, el, X) ==
    LET L == LetterSeries([d \in 1..Min(Len(el), Len(X)) |-> el[d]], X)
    IN  CumSum([t \in 1..Len(S) |-> L[t] * (IF t = 1 THEN 0 ELSE S[t - 1])])

\* one step of the engine: P_k = L_k * S_(k-1), S_k = cumsum(P_k)
ISSLetter(S, el, X) ==
    LET L == LetterSeries([d \in 1..Min(Len(el), Len(X)) |-> el[d]], X)
    IN  CumSum([t \in 1..Len(S) |-> L[t] * S[t]])

\* the iterated sum of a whole word in "single" mode
RECURSIVE ISSWord(_, _, _)
ISSWord(S, els, X) ==
    IF els = <<>> THEN S ELSE ISSWord(ISSLetter(S, Head(els), X), Tail(els), X)

Ones(n) == [t \in 1..n |-> 1]

-----------------------------------------------------------------------------
(* Sieves and preparateurs.  A real number is held as the integer count of *)
(* its hundredths, a feature as the fraction num/den it is computed as.    *)
(* An array is a record of its number of axes and its nested rows.         *)

Array(rank, val) == [rank |-> rank, val |-> val]
NoOut == [rank |-> 0, val |-> <<>>]
Unset == [set |-> FALSE, val |-> <<>>]
IsSet(v) == [set |-> TRUE, val |-> v]

Frac(n, d) == [num |-> n, den |-> d]

\* a count of the values strictly above lo
CountAbove(x, lo) == Cardinality({t \in 1..Len(x) : lo < x[t]})

\* np.sum(lo <= x), np.sum(lo <= x < hi) and np.sum(x == v) over one series
CountFrom(x, lo) == Cardinality({t \in 1..Len(x) : lo <= x[t]})
CountWithin(x, lo, hi) == Cardinality({t \in 1..Len(x) : lo <= x[t] /\ x[t] < hi})
CountEqual(x, v) == Cardinality({t \in 1..Len(x) : x[t] = v})

\* the rows with the given indices, in one flat series
RECURSIVE FlattenRows(_, _, _)
FlattenRows(X, S, i) ==
    IF i > Len(X) THEN <<>>
    ELSE (IF i \in S THEN X[i] ELSE <<>>) \o FlattenRows(X, S, i + 1)

\* np.quantile(a, p) with linear interpolation, p in hundredths
Quantile(a, p) ==
    LET v  == SortSeq(a, LAMBDA x, y : x < y)
        h  == p * (Len(v) - 1)
        lo == h \div 100
        fr == h % 100
    IN  IF fr = 0 THEN v[lo + 1]
        ELSE v[lo + 1] + (fr * (v[lo + 2] - v[lo + 1])) \div 100

NoSieve == [cls |-> "none", q_c_input |-> <<>>, sample_size |-> 0,
            segments |-> FALSE, q |-> Unset]

\* list(zip(a, b))
Zip(a, b) == [i \in 1..Min(Len(a), Len(b)) |-> [q |-> a[i], c |-> b[i]]]

\* the distinct members of a list in each order a set may yield them
Orders(l) ==
    LET S == {l[i] : i \in 1..Len(l)}
    IN  {o \in [1..Cardinality(S) -> S] : \A i, j \in 1..Cardinality(S) :
                                              i # j => o[i] # o[j]}

\* a constructor that keeps the thresholds of a segmented PPV in the order
\* in which the set yields them
PPVInitUnsorted(cls, quantile, constant, sample_size, segments, order) ==
    LET qs == quantile.val
        cs == IF quantile.list /\ ~constant.list
              THEN [i \in 1..Len(qs) |-> constant.val[1]]
              ELSE constant.val
    IN  IF \/ quantile.list /\ constant.list /\ Len(qs) # Len(constant.val)
           \/ quantile.list /\ \E i \in 1..Min(Len(qs), Len(cs)) :
                                  ~cs[i] /\ ~(0 <= qs[i] /\ qs[i] <= 100)
           \/ ~quantile.list /\ constant.list /\ Len(constant.val) > 1
           \/ ~(0 < sample_size /\ sample_size <= 100)
           \/ segments /\ Len(qs) = 1
        THEN [err |-> "ValueError", obj |-> NoSieve]
        ELSE [err |-> "ok",
              obj |-> [cls |-> cls,
                       q_c_input |-> IF segments THEN Zip(order, cs) ELSE Zip(qs, cs),
                       sample_size |-> sample_size, segments |-> segments,
                       q |-> Unset]]

\* PPV.__init__ and, with segments FALSE, PPVC.__init__; quantile and
\* constant are a list or a single value, order is the order in which
\* set(quantile) yields its members
PPVInit(cls, quantile, constant, sample_size, segments, order) ==
    LET qs == quantile.val
        cs == IF quantile.list /\ ~constant.list
              THEN [i \in 1..Len(qs) |-> constant.val[1]]
              ELSE constant.val
        badLength == quantile.list /\ constant.list /\ Len(qs) # Len(constant.val)
        badProb   == quantile.list /\ ~badLength
                     /\ \E i \in 1..Len(qs) : ~cs[i] /\ ~(0 <= qs[i] /\ qs[i] <= 100)
        badSingle == ~quantile.list /\ constant.list /\ Len(constant.val) > 1
        badSample == ~(0 < sample_size /\ sample_size <= 100)
        badSegs   == segments /\ Len(qs) = 1
        q_c_input == IF segments
                     THEN SortSeq(Zip(order, cs), LAMBDA x, y : x.q < y.q)
                     ELSE Zip(qs, cs)
    IN  IF badLength \/ badProb \/ badSingle \/ badSample \/ badSegs
        THEN [err |-> "ValueError", obj |-> NoSieve]
        ELSE [err |-> "ok",
              obj |-> [cls |-> cls, q_c_input |-> q_c_input,
                       sample_size |-> sample_size, segments |-> segments,
                       q |-> Unset]]

\* PPV.nfeatures
NFeatures(sv) == IF sv.segments THEN Len(sv.q_c_input) - 1 ELSE Len(sv.q_c_input)

\* size of the random sub-sample PPV.fit draws from the rows of X
SampleSize(sv, X) == Max(1, (sv.sample_size * Len(X)) \div 100)

\* the loop of PPV.fit from quantile i on; sel[i] is the selection that
\* np.random.choice draws for quantile i
RECURSIVE PPVResolve(_, _, _, _)
PPVResolve(sv, X, sel, i) ==
    IF i > Len(sv.q.val) THEN [err |-> "ok", obj |-> sv]
    ELSE IF sv.q_c_input[i].c THEN PPVResolve(sv, X, sel, i + 1)
    ELSE IF SampleSize(sv, X) > Len(X) THEN [err |-> "ValueError", obj |-> sv]
    ELSE IF ~(0 <= sv.q.val[i] /\ sv.q.val[i] <= 100)
         THEN [err |-> "ValueError", obj |-> sv]
    ELSE PPVResolve([sv EXCEPT !.q.val[i] = Quantile(FlattenRows(X, sel[i], 1), @)],
                    X, sel, i + 1)

\* PPV.fit(X)
PPVFit(sv, X, sel) ==
    PPVResolve([sv EXCEPT !.q = IsSet([i \in 1..Len(sv.q_c_input) |-> sv.q_c_input[i].q])],
               X, sel, 1)

\* result[:, 0] if there is one feature, else result
Shaped(sv, rows) ==
    IF NFeatures(sv) = 1 THEN Array(1, [i \in 1..Len(rows) |-> rows[i][1]])
    ELSE Array(2, rows)

\* a sieve that falls back on the configured values when it was not fitted
PPVSieveLenient(sv, X) ==
    LET q == IF sv.q.set THEN sv.q.val
             ELSE [i \in 1..Len(sv.q_c_input) |-> sv.q_c_input[i].q]
        row(x) == [j \in 1..NFeatures(sv) |->
                      Frac(CountFrom(x, q[j]), Len(x))]
    IN  [err |-> "ok", out |-> Shaped(sv, [i \in 1..Len(X) |-> row(X[i])])]

\* PPV.sieve(X)
PPVSieve(sv, X) ==
    IF ~sv.q.set THEN [err |-> "RuntimeError", out |-> NoOut]
    ELSE IF NFeatures(sv) < 0 THEN [err |-> "ValueError", out |-> NoOut]
    ELSE LET q == sv.q.val
             row(x) ==
                 IF sv.segments
                 THEN [j \in 1..NFeatures(sv) |->
                          Frac(CountWithin(x, q[j], q[j + 1]), Len(x))]
                 ELSE [j \in 1..NFeatures(sv) |->
                          Frac(CountFrom(x, q[j]), Len(x))]
         IN  [err |-> "ok", out |-> Shaped(sv, [i \in 1..Len(X) |-> row(X[i])])]

\* _increments of a series: the first value, then the steps
Increments(x) == [t \in 1..Len(x) |-> IF t = 1 THEN x[1] ELSE x[t] - x[t - 1]]

\* PPVC.sieve(X)
PPVCSieve(sv, X) ==
    IF ~sv.q.set THEN [err |-> "RuntimeError", out |-> NoOut]
    ELSE LET q == sv.q.val
             ind(x, j) == [t \in 1..Len(x) |-> IF x[t] >= q[j] THEN 1 ELSE 0]
             row(x) == [j \in 1..NFeatures(sv) |->
                           Frac(2 * CountEqual(Increments(ind(x, j)), 1),
                                Len(x))]
         IN  [err |-> "ok", out |-> Shaped(sv, [i \in 1..Len(X) |-> row(X[i])])]

Sieve(sv, X) == IF sv.cls = "PPVC" THEN PPVCSieve(sv, X) ELSE PPVSieve(sv, X)

\* PPV.copy and PPVC.copy: the constructor is called again with the stored
\* pairs as two lists; order is the order of set(quantile) in that call
PPVCopy(sv, order) ==
    PPVInit(sv.cls,
            [list |-> TRUE, val |-> [i \in 1..Len(sv.q_c_input) |-> sv.q_c_input[i].q]],
            [list |-> TRUE, val |-> [i \in 1..Len(sv.q_c_input) |-> sv.q_c_input[i].c]],
            sv.sample_size, sv.segments, order)

\* A FeatureFilter holds the positional and the keyword arguments its
\* function is called with.  A keyword argument is given or not.
Given(v) == [given |-> TRUE, val |-> v]
NoQuantile == [given |-> FALSE, val |-> 0]
NoConstant == [given |-> FALSE, val |-> FALSE]
NoKwargs == [quantile |-> NoQuantile, constant |-> NoConstant]

\* the functions of fruits.features; every other value is not callable
FilterFunctions == {"_ppv", "_max", "_min"}

\* FeatureFilter.__init__(name)
FilterInit(name) == [name |-> name, args |-> <<>>, kwargs |-> NoKwargs, func |-> "None"]
NoFilter == FilterInit("")

\* FeatureFilter.set_function(f)
set_function(ff, f) ==
    IF f \notin FilterFunctions THEN [err |-> "TypeError", obj |-> ff]
    ELSE [err |-> "ok", obj |-> [ff EXCEPT !.func = f]]

\* FeatureFilter.__copy__: a new filter takes the arguments and then the
\* function, which set_function refuses when it is None
FilterCopy(ff) ==
    LET r == set_function([FilterInit(ff.name) EXCEPT !.args = ff.args,
                                                      !.kwargs = ff.kwargs], ff.func)
    IN  [err |-> r.err, obj |-> IF r.err = "ok" THEN r.obj ELSE NoFilter]

\* FeatureFilter.__call__(*args, **kwargs): the filter afterwards and the
\* filter returned; iterable tells whether the interpreter still has
\* collections.Iterable, which is looked up only when args is not empty.
\* The arguments are stored before the copy is taken.
FilterCall(ff, args, kwargs, iterable) ==
    IF args # <<>> /\ ~iterable
    THEN [err |-> "AttributeError", obj |-> ff, made |-> NoFilter]
    ELSE LET st == [ff EXCEPT !.args = IF args # <<>> THEN args ELSE @,
                              !.kwargs = kwargs]
             c  == FilterCopy(st)
         IN  [err |-> c.err, obj |-> st, made |-> c.obj]

\* PPV = FeatureFilter("proportion of positive values"); PPV.set_function(_ppv)
PPV == set_function(FilterInit("proportion of positive values"), "_ppv").obj

\* Preparateurs take arrays with three axes: samples, dimensions, time.
NoPrep == [cls |-> "none", n_given |-> [kind |-> "int", val |-> 0], n |-> Unset,
           means |-> Unset, stds |-> Unset, rank |-> 0, zero_padding |-> TRUE]

\* X.shape[k] for k = 1, 2; it exists only if X has that many axes
Shape1(X) == IF X.val = <<>> THEN 0 ELSE Len(X.val[1])
Shape2(X) == IF X.val = <<>> \/ X.val[1] = <<>> THEN 0 ELSE Len(X.val[1][1])

\* X[:, i, j]
Column(X, i, j) == [k \in 1..Len(X.val) |-> X.val[k][i][j]]

\* STD.__init__
STDInit == [NoPrep EXCEPT !.cls = "STD"]

\* STD.fit(X): the mean of a column is the fraction num/den, its standard
\* deviation the square root of num divided by den
STDFit(pr, X) ==
    IF X.rank = 2
    THEN [err |-> "IndexError",
          obj |-> [pr EXCEPT !.means = IsSet(<<[j \in 1..Shape1(X) |-> Frac(0, 1)]>>),
                             !.stds = IsSet(<<[j \in 1..Shape1(X) |-> Frac(0, 1)]>>),
                             !.rank = 1]]
    ELSE LET N == Len(X.val)
             sum(i, j) == SumTo(Column(X, i, j), N)
             sq(i, j)  == SumTo([k \in 1..N |-> Column(X, i, j)[k] * Column(X, i, j)[k]], N)
         IN  [err |-> "ok",
              obj |-> [pr EXCEPT
                  !.means = IsSet([i \in 1..Shape1(X) |->
                                    [j \in 1..Shape2(X) |-> Frac(sum(i, j), N)]]),
                  !.stds = IsSet([i \in 1..Shape1(X) |->
                                    [j \in 1..Shape2(X) |->
                                        Frac(N * sq(i, j) - sum(i, j) * sum(i, j), N)]]),
                  !.rank = 2]]

\* STD.prepare(X): an entry (x - mean) / std is kept as the pair of
\* N * x - sum and the number whose square root divides it
STDPrepare(pr, X) ==
    IF ~pr.means.set \/ ~pr.stds.set THEN [err |-> "RuntimeError", out |-> NoOut]
    ELSE IF X.rank = 2 \/ pr.rank = 1 THEN [err |-> "IndexError", out |-> NoOut]
    ELSE [err |-> "ok",
          out |-> Array(3, [k \in 1..Len(X.val) |-> [i \in 1..Shape1(X) |->
                     [j \in 1..Shape2(X) |->
                        [num |-> pr.means.val[i][j].den * X.val[k][i][j]
                                   - pr.means.val[i][j].num,
                         root |-> pr.stds.val[i][j].num]]]])]

\* INC.__init__(zero_padding)
INCInit(zero_padding) == [NoPrep EXCEPT !.cls = "INC", !.zero_padding = zero_padding]

\* INC.fit(X) is the fit of DataPreparateur, which does nothing
INCFit(pr, X) == [err |-> "ok", obj |-> pr]

\* INC.prepare(X): the increments along the time axis, the first of them
\* set to 0 with zero padding; X needs its three axes
INCPrepare(pr, X) ==
    IF X.rank = 2 THEN [err |-> "IndexError", out |-> NoOut]
    ELSE [err |-> "ok",
          out |-> Array(3, [k \in 1..Len(X.val) |-> [i \in 1..Shape1(X) |->
                     [t \in 1..Shape2(X) |->
                        IF pr.zero_padding /\ t = 1 THEN 0
                        ELSE Increments(X.val[k][i])[t]]]])]

\* the methods DataPreparateur of fruits.preparation.abstract declares
\* abstract, and the methods the class DOT defines
AbstractMethods == {"transform", "copy"}
DOTMethods == {"__init__", "fit", "prepare", "copy", "__eq__", "__str__", "__repr__"}

\* DOT.__init__(self, n)
DOTConstructor(n) ==
    IF n.kind = "float" /\ ~(0 < n.val /\ n.val < 100)
    THEN [err |-> "ValueError", obj |-> NoPrep]
    ELSE IF n.kind \notin {"float", "int"} THEN [err |-> "TypeError", obj |-> NoPrep]
    ELSE [err |-> "ok", obj |-> [NoPrep EXCEPT !.cls = "DOT", !.n_given = n]]

\* a call of a class whose methods are the given ones: a class that leaves
\* an abstract method undefined cannot be instantiated, and the refusal
\* comes before __init__ runs
Instantiate(methods, made) ==
    IF AbstractMethods \ methods # {} THEN [err |-> "TypeError", obj |-> NoPrep]
    ELSE made

\* DOT(n)
DOTInit(n) == Instantiate(DOTMethods, DOTConstructor(n))

\* D(n) for a class D(DOT) that defines transform and inherits __init__,
\* fit and prepare from DOT
SubDOTInit(n) == Instantiate(DOTMethods \cup {"transform"}, DOTConstructor(n))

\* DOT.fit(X)
DOTFit(pr, X) ==
    IF X.rank = 2 THEN [err |-> "IndexError", obj |-> pr]
    ELSE LET T == Shape2(X)
             n == IF pr.n_given.kind = "float"
                  THEN Max(1, (pr.n_given.val * T) \div 100)
                  ELSE IF pr.n_given.val > T THEN T ELSE pr.n_given.val
         IN  [err |-> "ok", obj |-> [pr EXCEPT !.n = IsSet(n)]]

\* the indices (from 0) that the slice start::step selects among T
SliceIndices(start, step, T) ==
    IF step > 0
    THEN LET s0 == IF start < 0 THEN Max(start + T, 0) ELSE start
         IN  {t \in 0..(T - 1) : t >= s0 /\ (t - s0) % step = 0}
    ELSE LET s0 == IF start < 0 THEN start + T ELSE Min(start, T - 1)
         IN  {t \in 0..(T - 1) : t <= s0 /\ (s0 - t) % (-step) = 0}

\* DOT.prepare(X)
DOTPrepare(pr, X) ==
    IF ~pr.n.set THEN [err |-> "RuntimeError", out |-> NoOut]
    ELSE IF X.rank = 2 THEN [err |-> "IndexError", out |-> NoOut]
    ELSE IF pr.n.val = 0 THEN [err |-> "ValueError", out |-> NoOut]
    ELSE LET keep == SliceIndices(pr.n.val - 1, pr.n.val, Shape2(X))
         IN  [err |-> "ok",
              out |-> Array(3, [k \in 1..Len(X.val) |-> [i \in 1..Shape1(X) |->
                         [j \in 1..Shape2(X) |->
                            IF (j - 1) \in keep THEN X.val[k][i][j] ELSE 0]]])]

PrepFit(pr, X) ==
    IF pr.cls = "STD" THEN STDFit(pr, X)
    ELSE IF pr.cls = "INC" THEN INCFit(pr, X)
    ELSE DOTFit(pr, X)
PrepPrepare(pr, X) ==
    IF pr.cls = "STD" THEN STDPrepare(pr, X)
    ELSE IF pr.cls = "INC" THEN INCPrepare(pr, X)
    ELSE DOTPrepare(pr, X)

\* A branch, as the specification describes it: one preparateur, the words
\* [1] and [2] in "single" mode, and one sieve that is fitted per word.  The
\* cache holds the prepared dataset and the iterated sums of every word.
BranchWords == << << <<1>> >>, << <<0, 1>> >> >>

BranchInit(prep, sieve) ==
    [fitted |-> FALSE, prep |-> prep, sieve |-> sieve, sieves |-> <<>>, cache |-> Unset]

\* the iterated sums of every word over every sample of a prepared dataset
BranchIterate(P) ==
    [w \in 1..Len(BranchWords) |->
        [k \in 1..Len(P.val) |-> ISSWord(Ones(Shape2(P)), BranchWords[w], P.val[k])]]

AllRows(sv, X) == [i \in 1..Len(sv.q_c_input) |-> 1..Len(X)]

\* FruitBranch.fit(X): nothing is kept unless every stage succeeds
BranchFit(br, X) ==
    LET p    == PrepFit(br.prep, X)
        P    == PrepPrepare(p.obj, X)
        sums == BranchIterate(P.out)
        fits == [w \in 1..Len(BranchWords) |-> PPVFit(br.sieve, sums[w], AllRows(br.sieve, sums[w]))]
    IN  IF p.err # "ok" THEN [err |-> p.err, obj |-> br]
        ELSE IF P.err # "ok" THEN [err |-> P.err, obj |-> br]
        ELSE IF \E w \in 1..Len(BranchWords) : fits[w].err # "ok"
             THEN [err |-> "ValueError", obj |-> br]
        ELSE [err |-> "ok",
              obj |-> [br EXCEPT !.fitted = TRUE, !.prep = p.obj,
                                 !.sieves = [w \in 1..Len(BranchWords) |-> fits[w].obj],
                                 !.cache = IsSet([prepared |-> P.out, sums |-> sums])]]

\* FruitBranch.transform(X): per sample the features of every word in turn
BranchTransform(br, X) ==
    IF ~br.fitted THEN [err |-> "RuntimeError", out |-> NoOut]
    ELSE LET P == PrepPrepare(br.prep, X)
             sums == BranchIterate(P.out)
             feat(w) == Sieve(br.sieves[w], sums[w]).out
             cols(w, k) == IF feat(w).rank = 1 THEN <<feat(w).val[k]>> ELSE feat(w).val[k]
         IN  IF P.err # "ok" THEN [err |-> P.err, out |-> NoOut]
             ELSE [err |-> "ok",
                   out |-> Array(2, [k \in 1..Len(X.val) |->
                              Flatten([w \in 1..Len(BranchWords) |-> cols(w, k)])])]

-----------------------------------------------------------------------------
(* Fruit and FruitBranch, as the specification describes them.  A branch   *)
(* is its configuration (preparateurs, words, calculator mode, sieves)     *)
(* together with what a fit leaves behind: the fitted preparateurs, one    *)
(* fitted copy of every sieve per word, and the cache of the prepared      *)
(* dataset and of the iterated sums of every word.  A sieve takes the      *)
(* array (samples x time) of one word, which is what a word has in         *)
(* "single" mode; what the sieves get of a word in "extended" mode is not  *)
(* described, so a branch in that mode is fitted up to its cache and is    *)
(* not transformed.                                                        *)

EmptyBranch == [preps |-> <<>>, words |-> <<>>, mode |-> "single", sieves |-> <<>>,
                fit |-> Unset, cache |-> Unset]

\* Fruit(): one empty branch with the cursor on it
FruitInit == [branches |-> <<EmptyBranch>>, cursor |-> 1]

\* a change of configuration that leaves the cache alone
ConfigureKeepingCache(br, field, value) == [br EXCEPT ![field] = value]

\* a change of configuration: the cache and the fitted state are dropped
Configure(br, field, value) ==
    [[br EXCEPT ![field] = value] EXCEPT !.fit = Unset, !.cache = Unset]

\* a fork that puts the new branch in front of the others
ForkInFront(fr) == [branches |-> <<EmptyBranch>> \o fr.branches, cursor |-> 1]

\* Fruit.fork(): a new empty branch at the end, the cursor on it
Fork(fr) == [branches |-> Append(fr.branches, EmptyBranch),
             cursor |-> Len(fr.branches) + 1]

\* Fruit.branch(): the branch at the cursor
CurrentBranch(fr) == fr.branches[fr.cursor]

\* the one member of a set of one: The({e(x) : x \in {v}}) is e(v)
The(S) == CHOOSE x \in S : TRUE

\* the preparateurs in order, each on the output of the one before it; with
\* fit TRUE each is fitted on what reaches it
RECURSIVE RunPreps(_, _, _)
RunPreps(preps, X, fit) ==
    IF preps = <<>> THEN [err |-> "ok", preps |-> <<>>, out |-> X]
    ELSE The({
        IF p.err # "ok" THEN [err |-> p.err, preps |-> <<>>, out |-> NoOut]
        ELSE The({
            IF P.err # "ok" THEN [err |-> P.err, preps |-> <<>>, out |-> NoOut]
            ELSE The({
                IF r.err # "ok" THEN r
                ELSE [err |-> "ok", preps |-> <<p.obj>> \o r.preps, out |-> r.out]
                : r \in {RunPreps(Tail(preps), P.out, fit)}})
            : P \in {PrepPrepare(p.obj, X)}})
        : p \in {IF fit THEN PrepFit(Head(preps), X)
                 ELSE [err |-> "ok", obj |-> Head(preps)]}})

\* the sums S_1 .. S_m of a word over one sample
RECURSIVE ISSAll(_, _, _)
ISSAll(S, els, X) ==
    IF els = <<>> THEN <<>>
    ELSE The({<<S1>> \o ISSAll(S1, Tail(els), X) : S1 \in {ISSLetter(S, Head(els), X)}})

\* the arrays (samples x time) a word exposes: S_m in "single" mode, every
\* S_k in order of k in "extended" mode
Channels(word, mode, P) ==
    The({IF mode = "single"
         THEN << [k \in 1..Len(P.val) |-> all[k][Len(word)]] >>
         ELSE [c \in 1..Len(word) |-> [k \in 1..Len(P.val) |-> all[k][c]]]
         : all \in {[k \in 1..Len(P.val) |-> ISSAll(Ones(Shape2(P)), word, P.val[k])]}})

\* what a fit caches of a prepared dataset: the dataset and the sums of
\* every word
CacheOf(br, P) ==
    [prepared |-> P,
     sums |-> [w \in 1..Len(br.words) |-> Channels(br.words[w], br.mode, P)]]

\* what a fit on X caches
BranchCache(br, X) == CacheOf(br, RunPreps(br.preps, X, TRUE).out)

\* the iterated sum of a word in "single" mode: S_m of every sample
WordSum(word, P) == Channels(word, "single", P)[1]

\* a fitted copy of every sieve for every word of a branch in "single"
\* mode, each fitted on the iterated sum of its word
FitSieves(br, P) ==
    IF br.mode # "single" THEN <<>>
    ELSE [w \in 1..Len(br.words) |->
             The({[s \in 1..Len(br.sieves) |->
                      PPVFit(br.sieves[s], S, AllRows(br.sieves[s], S))]
                  : S \in {WordSum(br.words[w], P)}})]

\* FruitBranch.fit(X): nothing is kept unless every stage succeeds
FruitBranchFit(br, X) ==
    IF br.words = <<>> THEN [err |-> "RuntimeError", obj |-> br]
    ELSE The({
        IF r.err # "ok" THEN [err |-> r.err, obj |-> br]
        ELSE The({
            IF \E w \in 1..Len(fits) : \E s \in 1..Len(br.sieves) :
                  fits[w][s].err # "ok"
            THEN [err |-> "ValueError", obj |-> br]
            ELSE [err |-> "ok",
                  obj |-> [br EXCEPT
                      !.fit = IsSet([preps |-> r.preps,
                                     sieves |-> [w \in 1..Len(fits) |->
                                         [s \in 1..Len(br.sieves) |-> fits[w][s].obj]]]),
                      !.cache = IsSet(CacheOf(br, r.out))]]
            : fits \in {FitSieves(br, r.out)}})
        : r \in {RunPreps(br.preps, X, TRUE)}})

\* the features of one sample from one sieve, as a list
FeatureList(out, k) == IF out.rank = 1 THEN <<out.val[k]>> ELSE out.val[k]

\* the features of word w of a fitted branch on the prepared dataset P: for
\* every sample the outputs of the sieves in the order of the sieves
SieveWord(br, P, w) ==
    The({[k \in 1..Len(P.val) |->
             Flatten([s \in 1..Len(br.sieves) |->
                 FeatureList(Sieve(br.fit.val.sieves[w][s], S).out, k)])]
         : S \in {WordSum(br.words[w], P)}})

\* FruitBranch.transform(X) of a branch in "single" mode: per sample the
\* features by word, by sieve and by feature index within the sieve
FruitBranchTransform(br, X) ==
    IF ~br.fit.set THEN [err |-> "RuntimeError", out |-> NoOut]
    ELSE The({
        IF r.err # "ok" THEN [err |-> r.err, out |-> NoOut]
        ELSE The({
            [err |-> "ok",
             out |-> Array(2, [k \in 1..Len(X.val) |->
                 Flatten([w \in 1..Len(br.words) |-> feat[w][k]])])]
            : feat \in {[w \in 1..Len(br.words) |-> SieveWord(br, r.out, w)]}})
        : r \in {RunPreps(br.fit.val.preps, X, FALSE)}})

\* the sum of the nfeatures() of the sieves of a branch
SieveFeatures(br) ==
    SumTo([s \in 1..Len(br.sieves) |-> NFeatures(br.sieves[s])], Len(br.sieves))

\* Fruit.fit(X): the branches are fitted in order, up to the first failure
RECURSIVE FruitFit(_, _, _)
FruitFit(fr, X, b) ==
    IF b > Len(fr.branches) THEN [err |-> "ok", obj |-> fr]
    ELSE The({IF r.err # "ok" THEN [err |-> r.err, obj |-> fr]
              ELSE FruitFit([fr EXCEPT !.branches[b] = r.obj], X, b + 1)
              : r \in {FruitBranchFit(fr.branches[b], X)}})

\* Fruit.transform(X): the features of the branches side by side, in the
\* order of the branches
FruitTransform(fr, X) ==
    The({IF \E b \in 1..Len(outs) : outs[b].err # "ok"
         THEN [err |-> outs[CHOOSE b \in 1..Len(outs) :
                               /\ outs[b].err # "ok"
                               /\ \A c \in 1..(b - 1) : outs[c].err = "ok"].err,
               out |-> NoOut]
         ELSE [err |-> "ok",
               out |-> Array(2, [k \in 1..Len(X.val) |->
                          Flatten([b \in 1..Len(outs) |-> outs[b].out.val[k]])])]
         : outs \in {[b \in 1..Len(fr.branches) |->
                        FruitBranchTransform(fr.branches[b], X)]}})

\* the Fruit every run starts from: the word [1] and the sieve PPV(0.5,
\* constant=False, sample_size=1) have been added to its first branch
FruitStart ==
    [FruitInit EXCEPT !.branches[1] =
        [EmptyBranch EXCEPT
            !.words = << << <<1>> >> >>,
            !.sieves = <<PPVInit("PPV", [list |-> FALSE, val |-> <<50>>],
                                 [list |-> FALSE, val |-> <<FALSE>>], 100, FALSE,
                                 <<50>>).obj>>]]

-----------------------------------------------------------------------------
(* Inputs of the word operations *)

Digits == {AllDigits[i] : i \in 1..(MaxDigit + 1)}
Chars == {"[", "]"} \cup Digits

StringsUpTo(n) == UNION {[1..k -> Chars] : k \in 0..n}

\* the strings of 1..ng bracket groups of 1..gl digits each
GroupsUpTo(gl, ds) == UNION {[1..k -> ds] : k \in 1..gl}
Bracket(g) == <<"[">> \o g \o <<"]">>
WellFormed(ng, gl, ds) ==
    UNION {{Flatten([i \in 1..k |-> Bracket(gs[i])]) : gs \in [1..k -> GroupsUpTo(gl, ds)]}
           : k \in 1..ng}

\* well-formed strings that lost their first or last character
NearMisses(S) == {DropLast(s) : s \in S} \cup {DropFirst(s) : s \in S}

WordStrings == WellFormed(MaxGroups, 1, Digits)

WordArgs == {NotStr} \cup {Str(s) : s \in StringsUpTo(MaxJunk) \cup WordStrings
                                         \cup NearMisses(WordStrings)}

\* values assigned to alpha: floats, lists of floats, and an int
AlphaFloats == {0, 5}
AlphaArgs == {FloatAlpha(a) : a \in AlphaFloats}
             \cup {ListAlpha([i \in 1..k |-> 5]) : k \in 0..MaxLetters}
             \cup {[kind |-> "int", val |-> <<0>>]}

-----------------------------------------------------------------------------
(* Operations on the words *)

Idle == [op |-> "none", target |-> "none", err |-> "ok"]

FreeIds(n) == Smallest(ObjIds \ Referenced(words), n)

\* names a string may still be appended to without exceeding the bound
Fits(wd, arg) ==
    Accepted(arg) => Max(NGroups(wd.name), Len(wd.els)) + NGroups(arg.chars) <= MaxLetters

\* x = SimpleWord(arg)
NewSimpleWord(x, arg) ==
    /\ words[x].cls = "none"
    /\ Fits(NoWord, arg)
    /\ LET r == SimpleNew(heap, arg, hashing, FreeIds(NGroups(arg.chars)))
           ws == IF r.err = "ok" THEN [words EXCEPT ![x] = r.word] ELSE words
       IN  /\ words' = ws
           /\ heap' = IF r.err = "ok" THEN Collect(r.heap, ws) ELSE heap
           /\ last' = [op |-> "new", target |-> x, err |-> r.err]
    /\ UNCHANGED <<hashing, iss, comp, res, fruit, loops>>

\* x.multiply(arg) on a SimpleWord
Multiply(x, arg) ==
    /\ words[x].cls = "SimpleWord"
    /\ Fits(words[x], arg)
    /\ LET r == SimpleMultiply(words[x], heap, arg, hashing, FreeIds(NGroups(arg.chars)))
           ws == [words EXCEPT ![x] = r.word]
       IN  /\ words' = ws
           /\ heap' = Collect(r.heap, ws)
           /\ last' = [op |-> "multiply", target |-> x, err |-> r.err]
    /\ UNCHANGED <<hashing, iss, comp, res, fruit, loops>>

\* x.name = name, for a string
SetName(x, name) ==
    /\ words[x].cls # "none"
    /\ words' = [words EXCEPT ![x].name = name]
    /\ last' = [op |-> "name", target |-> x, err |-> "ok"]
    /\ UNCHANGED <<heap, hashing, iss, comp, res, fruit, loops>>

\* x.alpha = a
SetAlpha(x, a) ==
    /\ words[x].cls # "none"
    /\ LET r == AlphaSet(words[x], a)
       IN  /\ words' = [words EXCEPT ![x] = r.word]
           /\ last' = [op |-> "alpha", target |-> x, err |-> r.err]
    /\ UNCHANGED <<heap, hashing, iss, comp, res, fruit, loops>>

\* c = x.copy()
Copy(x) ==
    /\ words[x].cls # "none"
    /\ x # "c"
    /\ LET wd == words[x]
           n  == Max(NGroups(wd.name), Len(wd.els))
           fresh == Smallest(ObjIds \ Referenced([words EXCEPT !["c"] = NoWord]), n)
           r  == IF wd.cls = "SimpleWord"
                 THEN SimpleCopy(wd, heap, hashing, fresh)
                 ELSE WordCopy(wd, heap, fresh)
           ws == IF r.err = "ok" THEN [words EXCEPT !["c"] = r.word] ELSE words
       IN  /\ words' = ws
           /\ heap' = IF r.err = "ok" THEN Collect(r.heap, ws) ELSE heap
           /\ last' = [op |-> "copy", target |-> x, err |-> r.err]
    /\ UNCHANGED <<hashing, iss, comp, res, fruit, loops>>

\* g = Word()
NewWord ==
    /\ words["g"].cls = "none"
    /\ words' = [words EXCEPT !["g"] = WordInit("Word")]
    /\ last' = [op |-> "new", target |-> "g", err |-> "ok"]
    /\ UNCHANGED <<heap, hashing, iss, comp, res, fruit, loops>>

\* g.multiply(words[y]): Word.multiply with another word
MultiplyWord(y) ==
    /\ words["g"].cls = "Word"
    /\ words[y].cls # "none"
    /\ y # "g"
    /\ Len(words["g"].els) + Len(words[y].els) <= MaxLetters
    /\ LET r == WordMultiply(words["g"], words[y])
       IN  /\ words' = [words EXCEPT !["g"] = r.word]
           /\ last' = [op |-> "multiply", target |-> "g", err |-> r.err]
    /\ UNCHANGED <<heap, hashing, iss, comp, res, fruit, loops>>

\* g.multiply(arg) with something that is neither a letter nor a word
MultiplyOther ==
    /\ words["g"].cls = "Word"
    /\ LET r == WordMultiply(words["g"], NoWord)
       IN  /\ words' = [words EXCEPT !["g"] = r.word]
           /\ last' = [op |-> "multiply", target |-> "g", err |-> r.err]
    /\ UNCHANGED <<heap, hashing, iss, comp, res, fruit, loops>>

InitWords ==
    /\ heap = [o \in ObjIds |-> <<>>]
    /\ words = [x \in WordIds |-> NoWord]
    /\ last = Idle

NonZeroDigits == Digits \ {"0"}

\* a run in which the hash of a digit of row r is its value plus 10 (r - 1);
\* the hashes show only in bracket groups in which two letters write the
\* same index
PlainHashing ==
    [c \in DigitChars |->
        LET n == DigitVal(c) + 10 * ((CHOOSE r \in 1..Len(DigitRows) :
                                        \E i \in 1..10 : DigitRows[r][i] = c) - 1)
        IN  IF n < 32 THEN <<n>> ELSE <<n % 32, n \div 32>>]

IssIdle == [phase |-> "idle", name |-> <<>>, word |-> <<>>, X |-> <<>>, k |-> 0,
            S |-> <<>>]

NoRes == [op |-> "none", err |-> "ok", out |-> NoOut]

\* the branch holds INC() and PPV(0.5, False, 1.0); comp.called records for
\* each object whether its fit has been called
InitBranch ==
    BranchInit(INCInit(TRUE),
               PPVInit("PPV", [list |-> FALSE, val |-> <<50>>],
                       [list |-> FALSE, val |-> <<FALSE>>], 100, FALSE, <<50>>).obj)

InitRest ==
    /\ iss = IssIdle
    /\ comp = [sieve |-> NoSieve, prep |-> NoPrep, branch |-> InitBranch,
               filter |-> PPV,
               called |-> [sieve |-> FALSE, prep |-> FALSE, branch |-> FALSE]]
    /\ res = NoRes
    /\ fruit = FruitStart
    /\ loops = NoLoops

Init == InitWords /\ InitRest /\ hashing = PlainHashing

NextWord ==
    \/ \E arg \in WordArgs : NewSimpleWord("w", arg)
    \/ \E arg \in WordArgs : Multiply("w", arg)
    \/ \E a \in AlphaArgs : SetAlpha("w", a)

SpecWord == Init /\ [][NextWord]_vars

\* What the guards of multiply and of the alpha setter let through: a
\* SimpleWord w and a generic Word g, given arguments of every kind, among
\* them strings with digits outside ASCII.
GuardArgs == {NotStr} \cup {Str(s) : s \in StringsUpTo(MaxJunk)
                                           \cup WellFormed(1, 1, {"1", "U+0663"})
                                           \cup NearMisses(WellFormed(2, 1, {"1"}))}

\* strings whose digits are in part outside ASCII
WideArgs == {Str(s) : s \in WellFormed(1, 2, {"1", "U+0663", "U+FF11", "U+1D7CF"})
                           \cup NearMisses(WellFormed(1, 1, {"U+FF11"}))}

NextGuard ==
    \/ \E arg \in GuardArgs : NewSimpleWord("w", arg)
    \/ \E arg \in GuardArgs : Multiply("w", arg)
    \/ \E x \in {"w", "g"} : \E a \in AlphaArgs : SetAlpha(x, a)
    \/ NewWord
    \/ MultiplyOther

SpecGuard == Init /\ [][NextGuard]_vars

\* Copies: a SimpleWord w over two dimensions and c, its latest copy; both
\* are multiplied and renamed at any time, before and after the copy was
\* taken.  w is built from CopyArgs and the words are multiplied by
\* CopyFactors.
CopyArgs == {Str(s) : s \in WellFormed(1, 1, {"1"})}
CopyFactors == {Str(s) : s \in WellFormed(1, 1, {"2"})}
CopyAlphas == {FloatAlpha(5)} \cup {ListAlpha([i \in 1..k |-> 5]) : k \in 1..2}
\* names assigned to a word: a string of the grammar and one that multiply
\* would refuse
CopyNames == {<<"[", "1", "]", "[", "2", "]">>, <<"x">>}

NextCopy ==
    \/ \E x \in {"w", "c"} : \E name \in CopyNames : SetName(x, name)
    \/ \E arg \in CopyArgs : NewSimpleWord("w", arg)
    \/ \E x \in {"w", "c"} : \E arg \in CopyFactors :
            Multiply(x, arg)
    \/ \E a \in CopyAlphas : SetAlpha("w", a)
    \/ Copy("w")

SpecCopy == Init /\ [][NextCopy]_vars

\* Iterated sums of SimpleWords over short two-dimensional series, and over
\* the first sample of the test data (in tenths).
MaxSeriesLen == 3      \* time steps of the generated series

IssValues == {-1, 2}
IssData == [1..2 -> [1..MaxSeriesLen -> IssValues]]
             \cup {<< <<-40, 8, 0, 50, -30>>, <<20, 10, 0, 0, -70>> >>}
DocWord == <<"[", "1", "1", "]", "[", "1", "2", "2", "]">>
IssArgs == {Str(s) : s \in WellFormed(2, 2, {"1", "2"}) \cup WellFormed(1, 1, {"3"})
                           \cup {DocWord}}

\* ISS(X, SimpleWord(arg)) is started
IssStart(X, arg) ==
    /\ iss.phase = "idle"
    /\ LET r == SimpleNew([o \in ObjIds |-> <<>>], arg, hashing,
                          [i \in 1..NGroups(arg.chars) |-> i])
           els == Letters(r.word, r.heap)
       IN  /\ r.err = "ok"
           /\ iss' = IF \A i \in 1..Len(els) : Evaluable(els[i], X)
                     THEN [phase |-> "run", name |-> r.word.name, word |-> els,
                           X |-> X, k |-> 0, S |-> Ones(Len(X[1]))]
                     ELSE [phase |-> "error", name |-> r.word.name, word |-> els,
                           X |-> X, k |-> 0, S |-> <<>>]
    /\ UNCHANGED <<heap, words, hashing, last, comp, res, fruit, loops>>

\* the engine processes the next extended letter
IssStep ==
    /\ iss.phase = "run"
    /\ LET k == iss.k + 1
       IN  iss' = [iss EXCEPT !.k = k,
                              !.S = ISSLetter(iss.S, iss.word[k], iss.X),
                              !.phase = IF k = Len(iss.word) THEN "done" ELSE "run"]
    /\ UNCHANGED <<heap, words, hashing, last, comp, res, fruit, loops>>

NextIss ==
    \/ \E X \in IssData : \E arg \in IssArgs : IssStart(X, arg)
    \/ IssStep

SpecIss == Init /\ [][NextIss]_vars

\* Fitting and applying a sieve, a preparateur and a branch, on the test
\* dataset of the repository (in hundredths) and on pieces of it.
MaxRows == 2           \* series per dataset given to a sieve

TestData == << << <<-400, 80, 0, 500, -300>>, <<200, 100, 0, 0, -700>> >>,
               << <<500, 800, 200, 600, 0>>, <<-500, -100, -400, -50, -800>> >> >>
TestRows == {TestData[1][1], TestData[1][2]}
\* one series of odd length whose values alternate around 0
Alternating == << <<100, -100, 100>> >>
Data2 == UNION {[1..n -> TestRows] : n \in 0..MaxRows} \cup {TestData[2], Alternating}
Data3 == {Array(3, TestData), Array(3, <<TestData[2]>>),
          Array(2, TestData[1])}

One(v) == [list |-> FALSE, val |-> <<v>>]
Many(l) == [list |-> TRUE, val |-> l]
Args(q, c, ss, seg) == [quantile |-> q, constant |-> c, sample_size |-> ss, segments |-> seg]

SieveArgs ==
    {Args(One(q), One(c), 100, FALSE) : q \in {0, 50, 150}, c \in BOOLEAN}
    \cup {Args(One(50), One(FALSE), ss, FALSE) : ss \in {0, 50}}
    \cup {Args(Many(<<50, 10, 70>>), One(FALSE), 100, FALSE),
          Args(Many(<<50, 10, 0>>), Many(<<FALSE, TRUE, FALSE>>), 100, FALSE),
          Args(Many(<<50, 10>>), Many(<<FALSE>>), 100, FALSE),
          Args(Many(<<50, 120>>), One(FALSE), 100, FALSE),
          Args(One(50), Many(<<TRUE, TRUE>>), 100, FALSE),
          Args(One(50), One(FALSE), 100, TRUE),
          Args(Many(<<0, -500, 200>>), One(TRUE), 100, TRUE),
          Args(Many(<<-500, 0, 200>>), One(TRUE), 100, TRUE),
          Args(Many(<<50>>), One(FALSE), 100, TRUE),
          Args(Many(<<>>), One(FALSE), 100, TRUE),
          Args(Many(<<50, 50>>), One(FALSE), 100, TRUE),
          Args(Many(<<500, 20>>), Many(<<TRUE, FALSE>>), 100, TRUE),
          Args(Many(<<90, 100>>), Many(<<FALSE, TRUE>>), 100, TRUE)}

DotArgs == {[kind |-> "int", val |-> 2], [kind |-> "int", val |-> 7],
            [kind |-> "int", val |-> 0], [kind |-> "int", val |-> -1],
            [kind |-> "float", val |-> 50], [kind |-> "float", val |-> 150],
            [kind |-> "str", val |-> 0]}

Rest == <<heap, words, hashing, last, iss, fruit, loops>>

\* comp.sieve = PPV(...) or PPVC(...)
NewSieve(cls, a, order) ==
    /\ cls = "PPVC" => ~a.segments
    /\ LET r == PPVInit(cls, a.quantile, a.constant, a.sample_size, a.segments, order)
       IN  /\ comp' = IF r.err = "ok"
                       THEN [comp EXCEPT !.sieve = r.obj, !.called.sieve = FALSE]
                       ELSE comp
           /\ res' = [op |-> "new", err |-> r.err, out |-> NoOut, arg |-> a]
    /\ UNCHANGED Rest

\* comp.sieve.fit(X)
FitSieve(X, sel) ==
    /\ comp.sieve.cls # "none"
    /\ LET r == PPVFit(comp.sieve, X, sel)
       IN  /\ comp' = [comp EXCEPT !.sieve = r.obj, !.called.sieve = TRUE]
           /\ res' = [op |-> "sieve.fit", err |-> r.err, out |-> NoOut]
    /\ UNCHANGED Rest

\* the selections np.random.choice may draw, one per quantile
Selections(sv, X) ==
    [1..Len(sv.q_c_input) ->
        {S \in SUBSET (1..Len(X)) : Cardinality(S) = Min(SampleSize(sv, X), Len(X))}]

\* comp.sieve.sieve(X)
ApplySieve(X) ==
    /\ comp.sieve.cls # "none"
    /\ LET r == Sieve(comp.sieve, X)
       IN  res' = [op |-> "sieve.sieve", err |-> r.err, out |-> r.out]
    /\ UNCHANGED <<comp, fruit, heap, words, hashing, last, iss, loops>>

\* comp.sieve.copy()
CopySieve(order) ==
    /\ comp.sieve.cls # "none"
    /\ \E r \in {PPVCopy(comp.sieve, order)} :
          res' = [op |-> "sieve.copy", err |-> r.err, out |-> NoOut, copy |-> r.obj]
    /\ UNCHANGED <<comp, fruit, heap, words, hashing, last, iss, loops>>

\* comp.prep = STD()
NewSTD ==
    /\ comp' = [comp EXCEPT !.prep = STDInit, !.called.prep = FALSE]
    /\ res' = [op |-> "new", err |-> "ok", out |-> NoOut]
    /\ UNCHANGED Rest

\* comp.prep = DOT(n)
NewDOT(n) ==
    /\ LET r == DOTInit(n)
       IN  /\ comp' = IF r.err = "ok"
                       THEN [comp EXCEPT !.prep = r.obj, !.called.prep = FALSE]
                       ELSE comp
           /\ res' = [op |-> "new.DOT", err |-> r.err, out |-> NoOut, arg |-> n]
    /\ UNCHANGED Rest

\* comp.prep = D(n), D a subclass of DOT that defines transform
NewSubDOT(n) ==
    /\ LET r == SubDOTInit(n)
       IN  /\ comp' = IF r.err = "ok"
                       THEN [comp EXCEPT !.prep = r.obj, !.called.prep = FALSE]
                       ELSE comp
           /\ res' = [op |-> "new.SubDOT", err |-> r.err, out |-> NoOut, arg |-> n]
    /\ UNCHANGED Rest

\* comp.prep.fit(X)
FitPrep(X) ==
    /\ comp.prep.cls # "none"
    /\ LET r == PrepFit(comp.prep, X)
       IN  /\ comp' = [comp EXCEPT !.prep = r.obj, !.called.prep = TRUE]
           /\ res' = [op |-> "prep.fit", err |-> r.err, out |-> NoOut]
    /\ UNCHANGED Rest

\* comp.prep.prepare(X)
ApplyPrep(X) ==
    /\ comp.prep.cls # "none"
    /\ LET r == PrepPrepare(comp.prep, X)
       IN  res' = [op |-> "prep.prepare", err |-> r.err, out |-> r.out]
    /\ UNCHANGED <<comp, fruit, heap, words, hashing, last, iss, loops>>

\* comp.branch.fit(X)
FitBranch(X) ==
    /\ LET r == BranchFit(comp.branch, X)
       IN  /\ comp' = [comp EXCEPT !.branch = r.obj, !.called.branch = TRUE]
           /\ res' = [op |-> "branch.fit", err |-> r.err, out |-> NoOut]
    /\ UNCHANGED Rest

\* comp.branch.transform(X)
TransformBranch(X) ==
    /\ LET r == BranchTransform(comp.branch, X)
       IN  res' = [op |-> "branch.transform", err |-> r.err, out |-> r.out]
    /\ UNCHANGED <<comp, fruit, heap, words, hashing, last, iss, loops>>

\* The components do not refer to one another, so a run exercises one of
\* them: a sieve, a preparateur or the branch.
OnlySieve  == comp.prep.cls = "none" /\ ~comp.called.branch /\ res.op # "branch.transform"
OnlyPrep   == comp.sieve.cls = "none" /\ ~comp.called.branch /\ res.op # "branch.transform"
OnlyBranch == comp.sieve.cls = "none" /\ comp.prep.cls = "none"

NextFit ==
    \/ /\ OnlySieve
       /\ \E cls \in {"PPV", "PPVC"} : \E a \in SieveArgs :
            \E o \in Orders(a.quantile.val) : NewSieve(cls, a, o)
    \/ \E X \in Data2 : \E sel \in Selections(comp.sieve, X) : FitSieve(X, sel)
    \/ \E X \in Data2 : ApplySieve(X)
    \/ \E o \in Orders([i \in 1..Len(comp.sieve.q_c_input) |-> comp.sieve.q_c_input[i].q]) :
         CopySieve(o)
    \/ OnlyPrep /\ NewSTD
    \/ OnlyPrep /\ \E n \in DotArgs : NewDOT(n)
    \/ OnlyPrep /\ \E n \in DotArgs : NewSubDOT(n)
    \/ \E X \in Data3 : FitPrep(X)
    \/ \E X \in Data3 : ApplyPrep(X)
    \/ OnlyBranch /\ \E X \in Data3 : FitBranch(X)
    \/ OnlyBranch /\ \E X \in Data3 : TransformBranch(X)

SpecFit == Init /\ [][NextFit]_vars

\* Equality of freshly built SimpleWords: w and c are both constructed from
\* strings with longer bracket groups.
MaxEqLen == 6          \* characters per string compared for equality

EqArgs == {Str(s) : s \in {t \in WellFormed(2, 3, {"0", "1", "2"}) : Len(t) <= MaxEqLen}}

NextEq ==
    \/ \E arg \in EqArgs : NewSimpleWord("w", arg)
    \/ \E arg \in EqArgs : NewSimpleWord("c", arg)

EqDigits == {"0", "1", "2"}

\* hashes that differ in the slot they start from and in the slot they move
\* to when that one is taken
HashValues == {<<1>>, <<2>>, <<1, 2>>}

InitEq ==
    /\ InitWords
    /\ InitRest
    /\ hashing \in {[c \in DigitChars |-> IF c \in EqDigits THEN g[c] ELSE PlainHashing[c]]
                      : g \in [EqDigits -> HashValues]}

SpecEq == InitEq /\ [][NextEq]_vars


\* A Fruit that is configured, forked, fitted and applied on the test
\* dataset of the repository and on its second sample alone.
MaxBranches == 2       \* branches of the Fruit

FruitPreps == {INCInit(TRUE)}
FruitWords == {<< <<1>> >>, << <<0, 1>>, <<1>> >>}
FruitSieves ==
    {PPVInit("PPV", One(50), One(FALSE), 100, FALSE, <<50>>).obj,
     PPVInit("PPV", Many(<<-500, 0, 200>>), One(TRUE), 100, TRUE, <<-500, 0, 200>>).obj}
FruitData == {Array(3, TestData), Array(3, <<TestData[2]>>)}

\* the parts of one kind that some branch of the Fruit holds
Held(fr, field) ==
    UNION {{fr.branches[b][field][i] : i \in 1..Len(fr.branches[b][field])} :
              b \in 1..Len(fr.branches)}

FruitRest == <<heap, words, hashing, last, iss, comp, loops>>

Called(op, err, arg, out) == [op |-> op, err |-> err, arg |-> arg, out |-> out]

\* fruit.add(part): a preparateur, a word or a sieve for the current branch;
\* every part is a new object, added to the Fruit once
Add(field, part) ==
    /\ part \notin Held(fruit, field)
    /\ fruit' = [fruit EXCEPT !.branches[fruit.cursor] =
                    Configure(@, field, Append(@[field], part))]
    /\ res' = Called("add", "ok", NoOut, NoOut)
    /\ UNCHANGED FruitRest

\* fruit.branch().calculator.mode = mode
SetMode(mode) ==
    /\ CurrentBranch(fruit).mode # mode
    /\ fruit' = [fruit EXCEPT !.branches[fruit.cursor] = Configure(@, "mode", mode)]
    /\ res' = Called("mode", "ok", NoOut, NoOut)
    /\ UNCHANGED FruitRest

\* fruit.fork()
ForkFruit ==
    /\ Len(fruit.branches) < MaxBranches
    /\ fruit' = Fork(fruit)
    /\ res' = Called("fork", "ok", NoOut, NoOut)
    /\ UNCHANGED FruitRest

\* fruit.fit(X)
FitFruit(X) ==
    /\ \E r \in {FruitFit(fruit, X, 1)} :
          /\ fruit' = r.obj
          /\ res' = Called("fit", r.err, X, NoOut)
    /\ UNCHANGED FruitRest

\* fruit.branch().fit(X)
FitCurrent(X) ==
    /\ \E r \in {FruitBranchFit(CurrentBranch(fruit), X)} :
          /\ fruit' = [fruit EXCEPT !.branches[fruit.cursor] = r.obj]
          /\ res' = Called("branch.fit", r.err, X, NoOut)
    /\ UNCHANGED FruitRest

\* every branch is in "single" mode
SingleMode(fr) == \A b \in 1..Len(fr.branches) : fr.branches[b].mode = "single"

\* fruit.transform(X) of a Fruit whose branches are in "single" mode
TransformFruit(X) ==
    /\ SingleMode(fruit)
    /\ \E r \in {FruitTransform(fruit, X)} :
          res' = Called("transform", r.err, X, r.out)
    /\ UNCHANGED <<fruit, heap, words, hashing, last, iss, comp, loops>>

NextFruit ==
    \/ \E p \in FruitPreps : Add("preps", p)
    \/ \E w \in FruitWords : Add("words", w)
    \/ \E sv \in FruitSieves : Add("sieves", sv)
    \/ \E m \in {"single", "extended"} : SetMode(m)
    \/ ForkFruit
    \/ \E X \in FruitData : FitFruit(X)
    \/ \E X \in FruitData : FitCurrent(X)
    \/ \E X \in FruitData : TransformFruit(X)

SpecFruit == Init /\ [][NextFruit]_vars

\* A transform whose work is spread over a pool of workers, as the
\* specification allows: the preparation of every branch and the sieving of
\* every word of a prepared branch are tasks of their own, which finish in
\* any order; every result is stored in the slot that the indices of its
\* branch and word name, and the matrix is put together from the slots when
\* all tasks have finished.  While a transform runs, res holds its state.
OrderWords == FruitWords \cup {<< <<1>>, <<1>> >>}

\* the sieving tasks of a transform: one per word of every branch
PoolTasks(fr) ==
    UNION {{<<b, w>> : w \in 1..Len(fr.branches[b].words)} : b \in 1..Len(fr.branches)}

\* a result that is stored in the first free slot of its branch
PutNext(slots, b, w, v) ==
    LET free == CHOOSE i \in 1..Len(slots[b]) :
                    /\ ~slots[b][i].set
                    /\ \A j \in 1..(i - 1) : slots[b][j].set
    IN  [a \in 1..Len(slots) |-> [i \in 1..Len(slots[a]) |->
            IF a = b /\ i = free THEN IsSet(v) ELSE slots[a][i]]]

\* the result of word w of branch b is stored in the slot of its indices
Put(slots, b, w, v) ==
    [a \in 1..Len(slots) |-> [i \in 1..Len(slots[a]) |->
        IF a = b /\ i = w THEN IsSet(v) ELSE slots[a][i]]]

\* no transform is running
NoPool == res.op # "pool"

\* fruit.transform(X) is called: the tasks are handed to the pool
StartPool(X) ==
    /\ NoPool
    /\ SingleMode(fruit)
    /\ res' = IF \E b \in 1..Len(fruit.branches) : ~fruit.branches[b].fit.set
              THEN Called("transform", "RuntimeError", X, NoOut)
              ELSE [op |-> "pool", err |-> "ok", arg |-> X, out |-> NoOut,
                    prepared |-> [b \in 1..Len(fruit.branches) |-> Unset],
                    slots |-> [b \in 1..Len(fruit.branches) |->
                                  [w \in 1..Len(fruit.branches[b].words) |-> Unset]],
                    done |-> {},
                    inorder |-> TRUE]
    /\ UNCHANGED <<fruit, heap, words, hashing, last, iss, comp, loops>>

\* a worker finishes the preparation of branch b
PrepareBranch(b) ==
    /\ res.op = "pool"
    /\ b \in 1..Len(fruit.branches)
    /\ ~res.prepared[b].set
    /\ \E r \in {RunPreps(fruit.branches[b].fit.val.preps, res.arg, FALSE)} :
          res' = IF r.err # "ok" THEN Called("transform", r.err, res.arg, NoOut)
                 ELSE [res EXCEPT
                          !.prepared = [a \in 1..Len(fruit.branches) |->
                                           IF a = b THEN IsSet(r.out) ELSE res.prepared[a]],
                          !.inorder = @ /\ \A a \in 1..(b - 1) : res.prepared[a].set]
    /\ UNCHANGED <<fruit, heap, words, hashing, last, iss, comp, loops>>

\* a worker finishes the sieving of word w of the prepared branch b
SieveTask(b, w) ==
    /\ res.op = "pool"
    /\ <<b, w>> \in PoolTasks(fruit) \ res.done
    /\ res.prepared[b].set
    /\ res' = [res EXCEPT
                  !.slots = Put(res.slots, b, w,
                                SieveWord(fruit.branches[b], res.prepared[b].val, w)),
                  !.done = @ \cup {<<b, w>>},
                  !.inorder = @ /\ \A t \in PoolTasks(fruit) :
                                      (t[1] < b \/ (t[1] = b /\ t[2] < w)) => t \in res.done]
    /\ UNCHANGED <<fruit, heap, words, hashing, last, iss, comp, loops>>

\* all tasks have finished: the matrix is read from the slots, branch by
\* branch and word by word, and transform returns it
Assemble ==
    /\ res.op = "pool"
    /\ res.done = PoolTasks(fruit)
    /\ res' = [op |-> "transform", err |-> "ok", arg |-> res.arg,
               out |-> Array(2, [k \in 1..Len(res.arg.val) |->
                          Flatten([b \in 1..Len(res.slots) |->
                              Flatten([w \in 1..Len(res.slots[b]) |->
                                  res.slots[b][w].val[k]])])]),
               inorder |-> res.inorder]
    /\ UNCHANGED <<fruit, heap, words, hashing, last, iss, comp, loops>>

NextOrder ==
    \/ NoPool /\ \E p \in FruitPreps : Add("preps", p)
    \/ NoPool /\ \E w \in OrderWords : Add("words", w)
    \/ NoPool /\ \E sv \in FruitSieves : Add("sieves", sv)
    \/ NoPool /\ ForkFruit
    \/ NoPool /\ \E X \in FruitData : FitFruit(X)
    \/ NoPool /\ \E X \in FruitData : TransformFruit(X)
    \/ \E X \in FruitData : StartPool(X)
    \/ \E b \in 1..MaxBranches : PrepareBranch(b)
    \/ \E t \in PoolTasks(fruit) : SieveTask(t[1], t[2])
    \/ Assemble

SpecOrder == Init /\ [][NextOrder]_vars

\* A Word g that is multiplied with the SimpleWord w, which is multiplied
\* further afterwards.
AliasArgs == {Str(s) : s \in WellFormed(1, 1, NonZeroDigits)}

NextAlias ==
    \/ \E arg \in AliasArgs : NewSimpleWord("w", arg)
    \/ \E arg \in AliasArgs : Multiply("w", arg)
    \/ NewWord
    \/ MultiplyWord("w")

SpecAlias == Init /\ [][NextAlias]_vars

\* Iterating over the SimpleWord w with two loops whose steps interleave.
IterArgs == {Str(s) : s \in WellFormed(MaxLetters, 1, {"1", "2"})}

\* loop p starts: for el in w
StartLoop(p) ==
    /\ words["w"].cls # "none"
    /\ loops.of[p].phase = "idle"
    /\ loops' = WordIter(loops, p)
    /\ UNCHANGED <<heap, words, hashing, last, iss, comp, res, fruit>>

\* loop p asks for its next item
StepLoop(p) ==
    /\ loops.of[p].phase = "run"
    /\ loops' = WordNext(words["w"], loops, p)
    /\ UNCHANGED <<heap, words, hashing, last, iss, comp, res, fruit>>

NextIter ==
    \/ \E arg \in IterArgs : NewSimpleWord("w", arg)
    \/ \E p \in LoopIds : StartLoop(p)
    \/ \E p \in LoopIds : StepLoop(p)

SpecIter == Init /\ [][NextIter]_vars

\* Calls of the module-level filter PPV of fruits.features, which every
\* caller shares, and of filters built, renamed or given a function by a
\* caller.
FilterArgs == {<<>>, <<0>>, <<50, TRUE>>}
FilterKwargs == [quantile : {NoQuantile, Given(0), Given(50)},
                 constant : {NoConstant, Given(TRUE), Given(FALSE)}]

\* made = PPV(*args, **kwargs)
CallFilter(args, kwargs, iterable) ==
    /\ \E r \in {FilterCall(comp.filter, args, kwargs, iterable)} :
          /\ comp' = [comp EXCEPT !.filter = r.obj]
          /\ res' = [op |-> "filter.call", err |-> r.err, out |-> NoOut,
                     args |-> args, kwargs |-> kwargs, made |-> r.made]
    /\ UNCHANGED Rest

\* comp.filter = FeatureFilter(name)
NewFilter(name) ==
    /\ comp' = [comp EXCEPT !.filter = FilterInit(name)]
    /\ res' = [op |-> "filter.new", err |-> "ok", out |-> NoOut]
    /\ UNCHANGED Rest

\* comp.filter.name = name
SetFilterName(name) ==
    /\ comp' = [comp EXCEPT !.filter.name = name]
    /\ res' = [op |-> "filter.name", err |-> "ok", out |-> NoOut]
    /\ UNCHANGED Rest

\* comp.filter.set_function(f)
SetFunction(f) ==
    /\ \E r \in {set_function(comp.filter, f)} :
          /\ comp' = [comp EXCEPT !.filter = r.obj]
          /\ res' = [op |-> "filter.set_function", err |-> r.err, out |-> NoOut]
    /\ UNCHANGED Rest

NextFilter ==
    \/ \E args \in FilterArgs : \E kwargs \in FilterKwargs : \E iterable \in BOOLEAN :
          CallFilter(args, kwargs, iterable)
    \/ NewFilter("n")
    \/ SetFilterName("renamed")
    \/ \E f \in {"_max", "None"} : SetFunction(f)

SpecFilter == Init /\ [][NextFilter]_vars

-----------------------------------------------------------------------------
(* Properties of the words *)

Exists(x) == words[x].cls # "none"
IsSimple(x) == words[x].cls = "SimpleWord"

\* the grammar (\[\d+\])+ stated by what may follow what
WellFormedString(s) ==
    /\ Len(s) >= 3
    /\ s[1] = "["
    /\ s[Len(s)] = "]"
    /\ \A i \in 1..Len(s) : s[i] \in {"[", "]"} \/ IsDigit(s[i])
    /\ \A i \in 1..(Len(s) - 1) :
          /\ s[i] = "[" => IsDigit(s[i + 1])
          /\ s[i] = "]" => s[i + 1] = "["
          /\ IsDigit(s[i]) => (IsDigit(s[i + 1]) \/ s[i + 1] = "]")

\* the digits of the k-th bracket group of a well-formed string
RECURSIVE GroupsOf(_)
GroupsOf(s) ==
    IF s = <<>> THEN <<>>
    ELSE LET close == CHOOSE i \in 1..Len(s) : s[i] = "]" /\ \A j \in 1..(i - 1) : s[j] # "]"
         IN  <<SubSeq(s, 2, close - 1)>> \o GroupsOf(SubSeq(s, close + 1, Len(s)))

\* corresponding groups are permutations of each other's digits
SameLetters(s, t) ==
    LET gs == GroupsOf(s)
        gt == GroupsOf(t)
    IN  /\ Len(gs) = Len(gt)
        /\ \A k \in 1..Len(gs) : \A i \in 1..Len(AllDigits) :
              Count(gs[k], AllDigits[i]) = Count(gt[k], AllDigits[i])

\* value at time t of the letter written as the digits g: the product of
\* X[d][t] over the digits d of the bracket group
RECURSIVE DigitProd(_, _, _)
DigitProd(g, X, t) ==
    IF g = <<>> THEN 1 ELSE X[DigitVal(Head(g))][t] * DigitProd(Tail(g), X, t)

\* S_0(t) = 1, S_k(t) = sum over t' <= t of L_k(t') * S_(k-1)(t')
RECURSIVE IterSum(_, _, _, _)
IterSum(gs, X, k, t) ==
    IF k = 0 THEN 1
    ELSE IF t = 0 THEN 0
    ELSE IterSum(gs, X, k, t - 1) + DigitProd(gs[k], X, t) * IterSum(gs, X, k - 1, t)

SeqMin(a) == CHOOSE m \in {a[i] : i \in 1..Len(a)} : \A i \in 1..Len(a) : m <= a[i]

\* C1: with alpha = 0 in "single" mode the result for a word of m letters is
\* S_m of the recursion whose inner sum includes the current index; a word
\* [d] yields the cumulative sum of dimension d; [1][1] on the series
\* (-4, 0.8, 0, 5, -3), here in tenths, has minimum 13.44 (1344 hundredths).
C1_IteratedSumRecursion ==
    iss.phase = "done" =>
        LET gs == GroupsOf(iss.name)
            T  == Len(iss.X[1])
        IN  /\ Len(iss.S) = T
            /\ \A t \in 1..T : iss.S[t] = IterSum(gs, iss.X, Len(gs), t)
            /\ \A d \in 1..Len(iss.X) :
                  iss.name = Bracket(<<AllDigits[d + 1]>>)
                      => \A t \in 1..T : iss.S[t] = SumTo(iss.X[d], t)
            /\ (iss.name = <<"[", "1", "]", "[", "1", "]">>
                  /\ iss.X[1] = <<-40, 8, 0, 50, -30>>) => SeqMin(iss.S) = 1344

\* the word [1][1] has been summed over the first test series
W1_TestSeriesSummed ==
    /\ iss.phase = "done"
    /\ iss.k = 2
    /\ iss.name = <<"[", "1", "]", "[", "1", "]">>
    /\ iss.X[1] = <<-40, 8, 0, 50, -30>>
    /\ iss.S = <<1600, 1344, 1344, 2244, 2604>>

\* C2: two SimpleWords built from strings whose corresponding bracket groups
\* are permutations of each other compare equal, and == is reflexive and
\* symmetric.
C2_EqualUpToPermutation ==
    (IsSimple("w") /\ IsSimple("c")) =>
        /\ SameLetters(words["w"].name, words["c"].name)
              => WordEq(words["w"], words["c"], heap).val
        /\ WordEq(words["w"], words["w"], heap).val
        /\ WordEq(words["w"], words["c"], heap).val
              = WordEq(words["c"], words["w"], heap).val

\* C3: when a multiply raises the highest dimension of a SimpleWord, every
\* letter the word already had is zero-padded to the new dimension count and
\* keeps its old exponents at the same indices.
C3_GrowthPadsToNewDim ==
    [][(IsSimple("w") /\ last'.op = "multiply" /\ last'.target = "w"
          /\ words'["w"].max_dim > words["w"].max_dim)
       => \A i \in 1..Len(words["w"].els) :
             LET old == heap[words["w"].els[i]]
                 new == heap'[words'["w"].els[i]]
             IN  /\ Len(new) = words'["w"].max_dim
                 /\ Len(new) >= Len(old)
                 /\ \A j \in 1..Len(new) :
                       new[j] = IF j <= Len(old) THEN old[j] ELSE 0]_vars

\* C4: right after c = x.copy(), c has the letters and the alpha of x.
C4_CopyKeepsLettersAndAlpha ==
    (last.op = "copy" /\ last.err = "ok") =>
        /\ Letters(words["c"], heap) = Letters(words[last.target], heap)
        /\ words["c"].alpha = words[last.target].alpha
        /\ AlphaGet(words["c"]) = AlphaGet(words[last.target])

\* what a caller can observe of a word
View(x, ws, hp) == <<ws[x].cls, ws[x].name, ws[x].max_dim, Len(ws[x].els),
                    Letters(ws[x], hp), ws[x].alpha>>

Other(x) == IF x = "w" THEN "c" ELSE "w"

\* C5: a word and its copy share no list object, and a multiply on one of
\* them leaves the name, the length and the letters of the other unchanged.
C5_CopySharesNothing ==
    [][/\ (Exists("w")' /\ Exists("c")') =>
            \A i \in 1..Len(words'["w"].els) : \A j \in 1..Len(words'["c"].els) :
                words'["w"].els[i] # words'["c"].els[j]
       /\ \A t \in {"w", "c"} :
            (last'.op = "multiply" /\ last'.target = t) =>
                View(Other(t), words', heap') = View(Other(t), words, heap)]_vars

\* a copy was taken and then grown past the dimension of its original
W5_CopyGrown ==
    /\ IsSimple("w") /\ IsSimple("c")
    /\ last.op = "multiply" /\ last.target = "c" /\ last.err = "ok"
    /\ words["c"].max_dim > words["w"].max_dim
    /\ Len(words["c"].els) > Len(words["w"].els)
    /\ Len(words["w"].els) >= 1

\* C6: whenever alpha is stored as a list, its length is len(word) - 1.
C6_AlphaListLength ==
    \A x \in WordIds :
        (Exists(x) /\ words[x].alpha.kind = "list")
            => Len(words[x].alpha.val) = WordLen(words[x]) - 1

\* C7: an argument that is not a string of the bracket grammar makes
\* construction and multiply raise ValueError and changes nothing.
C7_MalformedRejected ==
    \A arg \in WordArgs \cup GuardArgs \cup WideArgs :
        ~(arg.isstr /\ WellFormedString(arg.chars)) =>
            /\ LET r == SimpleNew(heap, arg, hashing, FreeIds(NGroups(arg.chars)))
               IN  r.err = "ValueError" /\ r.heap = heap
            /\ IsSimple("w") =>
                 LET r == SimpleMultiply(words["w"], heap, arg, hashing,
                                         FreeIds(NGroups(arg.chars)))
                 IN  /\ r.err = "ValueError"
                     /\ r.word = words["w"]
                     /\ r.heap = heap

\* a multiply on a word with letters has just been refused
W7_Refused ==
    /\ IsSimple("w")
    /\ Len(words["w"].els) >= 2
    /\ last = [op |-> "multiply", target |-> "w", err |-> "ValueError"]

\* the assignments the alpha setter must refuse
BadAlpha(wd, a) ==
    \/ a.kind = "list" /\ Len(a.val) # WordLen(wd) - 1
    \/ a.kind \notin {"list", "float"}

\* C8 as stated: a refused assignment raises ValueError and keeps the stored
\* alpha; an accepted one succeeds and the getter then returns a list of
\* length len(word) - 1.
C8_AlphaSetter ==
    \A x \in WordIds : Exists(x) =>
        \A a \in AlphaArgs :
            LET r == AlphaSet(words[x], a)
            IN  IF BadAlpha(words[x], a)
                THEN r.err = "ValueError" /\ r.word = words[x]
                ELSE /\ r.err = "ok"
                     /\ Len(AlphaGet(r.word)) = WordLen(r.word) - 1

\* C8 amended: the getter's list has length len(word) - 1 for a word with at
\* least one letter and is empty for a word without letters.
C8_AlphaSetterAmended ==
    \A x \in WordIds : Exists(x) =>
        \A a \in AlphaArgs :
            LET r == AlphaSet(words[x], a)
            IN  IF BadAlpha(words[x], a)
                THEN r.err = "ValueError" /\ r.word = words[x]
                ELSE /\ r.err = "ok"
                     /\ r.word = [words[x] EXCEPT !.alpha = a]
                     /\ Len(AlphaGet(r.word)) = Max(WordLen(r.word) - 1, 0)

\* both outcomes of the setter have been seen on a word with three letters
W8_ListAccepted ==
    /\ IsSimple("w")
    /\ Len(words["w"].els) = 3
    /\ words["w"].alpha.kind = "list"
    /\ last = [op |-> "alpha", target |-> "w", err |-> "ValueError"]

\* C9: the forward operation of a component whose fit was never called
\* raises and returns nothing: sieve of a PPV or PPVC, prepare of an STD or
\* DOT, transform of a branch.
C9_ForwardBeforeFitRaises ==
    /\ (res.op = "sieve.sieve" /\ ~comp.called.sieve)
          => res.err = "RuntimeError" /\ res.out = NoOut
    /\ (res.op = "prep.prepare" /\ ~comp.called.prep)
          => res.err = "RuntimeError" /\ res.out = NoOut
    /\ (res.op = "branch.transform" /\ ~comp.called.branch)
          => res.err = "RuntimeError" /\ res.out = NoOut
    /\ (comp.sieve.cls # "none" /\ ~comp.called.sieve) =>
          \A X \in Data2 : Sieve(comp.sieve, X) = [err |-> "RuntimeError", out |-> NoOut]
    /\ (comp.prep.cls # "none" /\ ~comp.called.prep) =>
          \A X \in Data3 :
              PrepPrepare(comp.prep, X) = [err |-> "RuntimeError", out |-> NoOut]

\* sieve was called on a PPV with three quantiles that was never fitted
W9_SieveBeforeFit ==
    /\ comp.sieve.cls = "PPV"
    /\ Len(comp.sieve.q_c_input) = 3
    /\ ~comp.called.sieve
    /\ res = [op |-> "sieve.sieve", err |-> "RuntimeError", out |-> NoOut]

\* C10: a fit that raises leaves the sieve, the preparateur and the branch
\* with its cache exactly as they were before the call.
C10_FailedFitChangesNothing ==
    [][(res'.op \in {"sieve.fit", "prep.fit", "branch.fit"} /\ res'.err # "ok")
         => /\ comp'.sieve = comp.sieve
            /\ comp'.prep = comp.prep
            /\ comp'.branch = comp.branch]_vars

\* C11: whenever a branch holds a cache after a step, either the branch is
\* exactly as it was before the step, configuration and cache alike, or the
\* step was a fit and the cache is what the current configuration computes
\* from the dataset of that fit: the prepared dataset and the iterated sums
\* of every word.  No step leaves a cache behind a changed configuration.
C11_CacheIsOfLastFit ==
    [][\A b \in 1..Len(fruit'.branches) :
          fruit'.branches[b].cache.set =>
              \/ /\ b <= Len(fruit.branches)
                 /\ fruit'.branches[b] = fruit.branches[b]
              \/ /\ res'.op \in {"fit", "branch.fit"}
                 /\ fruit'.branches[b].cache.val
                        = BranchCache(fruit'.branches[b], res'.arg)]_vars

\* the first branch got a preparateur after the start and was then fitted on
\* the second sample alone; its cache holds that one prepared sample
W11_RefittedAfterChange ==
    /\ res.op = "branch.fit" /\ res.err = "ok"
    /\ res.arg = Array(3, <<TestData[2]>>)
    /\ fruit.cursor = 1
    /\ Len(fruit.branches[1].preps) = 1
    /\ fruit.branches[1].cache.set
    /\ Len(fruit.branches[1].cache.val.prepared.val) = 1

\* C12: fork() appends one empty branch and puts the cursor on it, leaving
\* every branch that existed as it was; adding a part, setting the mode and
\* fitting the current branch change no branch but the one at the cursor
\* and leave the cursor where it is; a fit of the whole Fruit gives every
\* branch the state that fitting that branch alone gives it.
C12_ForkAndBranchFrame ==
    [][/\ res'.op = "fork" =>
            /\ fruit'.branches = Append(fruit.branches, EmptyBranch)
            /\ fruit'.cursor = Len(fruit.branches) + 1
            /\ CurrentBranch(fruit') = EmptyBranch
       /\ res'.op \in {"add", "mode", "branch.fit"} =>
            /\ fruit'.cursor = fruit.cursor
            /\ Len(fruit'.branches) = Len(fruit.branches)
            /\ \A b \in 1..Len(fruit.branches) :
                  b # fruit.cursor => fruit'.branches[b] = fruit.branches[b]
       /\ res'.op = "fit" =>
            /\ fruit'.cursor = fruit.cursor
            /\ Len(fruit'.branches) = Len(fruit.branches)
            /\ \A b \in 1..Len(fruit.branches) :
                  fruit'.branches[b] \in {fruit.branches[b],
                                          FruitBranchFit(fruit.branches[b], res'.arg).obj}
       /\ res'.op = "transform" => fruit' = fruit]_vars

\* a fitted first branch with its cache, and behind it a forked branch that
\* was configured and fitted on another dataset
W12_ForkedBesideFitted ==
    /\ Len(fruit.branches) = 2 /\ fruit.cursor = 2
    /\ fruit.branches[1].cache.set /\ fruit.branches[2].cache.set
    /\ Len(fruit.branches[1].cache.val.prepared.val)
          # Len(fruit.branches[2].cache.val.prepared.val)

\* the number of columns that come before those of sieve s on word w of
\* branch b
ColumnsBefore(fr, b, w, s) ==
    LET br == fr.branches[b]
    IN  SumTo([a \in 1..(b - 1) |->
                  Len(fr.branches[a].words) * SieveFeatures(fr.branches[a])], b - 1)
        + (w - 1) * SieveFeatures(br)
        + SumTo([t \in 1..(s - 1) |-> NFeatures(br.sieves[t])], s - 1)

\* the number of columns the configuration gives: per branch one block of
\* the features of all sieves for every word
AllColumns(fr) ==
    SumTo([a \in 1..Len(fr.branches) |->
              Len(fr.branches[a].words) * SieveFeatures(fr.branches[a])],
          Len(fr.branches))

\* what the fitted copy of sieve s for word w of branch br yields on the
\* dataset X, computed on its own
OneFeatureBlock(br, X, w, s) ==
    Sieve(br.fit.val.sieves[w][s],
          WordSum(br.words[w], RunPreps(br.fit.val.preps, X, FALSE).out)).out

\* C14: in every matrix that transform returns, whether the branches and
\* words were worked through in order or by workers that finished in any
\* order, the place of a column is fixed by the indices of the configuration
\* alone: feature f of sieve s on word w of branch b stands behind all
\* columns of the branches before b, of the words before w and of the sieves
\* before s, and holds what that sieve computes on the iterated sum of that
\* word; there are no other columns.
C14_ColumnOrder ==
    (res.op = "transform" /\ res.err = "ok") =>
        \A k \in 1..Len(res.out.val) :
            /\ Len(res.out.val[k]) = AllColumns(fruit)
            /\ \A b \in 1..Len(fruit.branches) :
                  \A w \in 1..Len(fruit.branches[b].words) :
                      \A s \in 1..Len(fruit.branches[b].sieves) :
                          \A f \in 1..NFeatures(fruit.branches[b].sieves[s]) :
                              res.out.val[k][ColumnsBefore(fruit, b, w, s) + f]
                                 = FeatureList(OneFeatureBlock(fruit.branches[b], res.arg,
                                                               w, s), k)[f]

\* a matrix was put together from the results of workers that did not
\* finish in the order of the branches and words, for a Fruit of two
\* branches, one of them with two words and two sieves whose columns differ
\* between the two words
W14_FinishedOutOfOrder ==
    /\ res.op = "transform" /\ res.err = "ok"
    /\ "inorder" \in DOMAIN res
    /\ ~res.inorder
    /\ Len(fruit.branches) = 2
    /\ \E b \in 1..2 :
          /\ Len(fruit.branches[b].words) = 2
          /\ Len(fruit.branches[b].sieves) = 2
          /\ res.out.val[1][ColumnsBefore(fruit, b, 1, 1) + 1]
                # res.out.val[1][ColumnsBefore(fruit, b, 2, 1) + 1]

\* the set of the members of a list
Range(l) == {l[i] : i \in 1..Len(l)}

\* the outcome of the last call if it was a construction of a PPV or PPVC
Constructed == res.op = "new" /\ "arg" \in DOMAIN res

\* C15: a construction with segments=True and fewer than two quantiles (a
\* single value, a list of one, the empty list) raises ValueError, and no
\* sieve with segments=True holds fewer than two thresholds.
C15_SegmentsNeedTwoQuantiles ==
    /\ (Constructed /\ res.arg.segments /\ Len(res.arg.quantile.val) < 2)
          => res.err = "ValueError"
    /\ (comp.sieve.cls # "none" /\ comp.sieve.segments)
          => Len(comp.sieve.q_c_input) >= 2

\* C16: a construction in which some quantile that is not marked constant
\* lies outside the open interval (0, 1) raises ValueError; so does
\* PPV(quantile=[0.5, 0.1, 0], constant=[False, True, False]).
C16_NonConstantStrictlyInside ==
    (/\ Constructed
     /\ ~(res.arg.quantile.list /\ res.arg.constant.list
          /\ Len(res.arg.quantile.val) # Len(res.arg.constant.val))
     /\ \E i \in 1..Len(res.arg.quantile.val) :
           /\ ~(IF res.arg.constant.list THEN res.arg.constant.val[i]
                ELSE res.arg.constant.val[1])
           /\ ~(0 < res.arg.quantile.val[i] /\ res.arg.quantile.val[i] < 100))
      => res.err = "ValueError"

\* a fitted PPV(quantile=0, constant=True)
PPVZero(sv) ==
    /\ sv.cls = "PPV" /\ ~sv.segments /\ sv.q.set
    /\ sv.q_c_input = <<[q |-> 0, c |-> TRUE]>>

\* C17 as stated: PPV(quantile=0, constant=True) yields for each series the
\* proportion of its values >= 0, 3/5 on (-4, 0.8, 0, 5, -3) and 4/5 on
\* (5, 8, 2, 6, 0).
C17_ProportionAtLeastZero ==
    PPVZero(comp.sieve) =>
        /\ \A X \in Data2 :
              Sieve(comp.sieve, X).out
                 = Array(1, [i \in 1..Len(X) |->
                               Frac(Cardinality({t \in 1..Len(X[i]) : X[i][t] >= 0}),
                                    Len(X[i]))])
        /\ Sieve(comp.sieve, <<TestData[1][1], TestData[2][1]>>).out
              = Array(1, <<Frac(3, 5), Frac(4, 5)>>)

\* C17, amended: PPV(quantile=0, constant=True) yields for each series the
\* proportion of its values >= 0: 3/5 on (-4, 0.8, 0, 5, -3), 4/5 on
\* (2, 1, 0, 0, -7) and 5/5 on (5, 8, 2, 6, 0).
C17_ProportionAmended ==
    PPVZero(comp.sieve) =>
        /\ \A X \in Data2 :
              Sieve(comp.sieve, X).out
                 = Array(1, [i \in 1..Len(X) |->
                               Frac(Cardinality({t \in 1..Len(X[i]) : X[i][t] >= 0}),
                                    Len(X[i]))])
        /\ Sieve(comp.sieve, <<TestData[1][1], TestData[1][2], TestData[2][1]>>).out
              = Array(1, <<Frac(3, 5), Frac(4, 5), Frac(5, 5)>>)

\* PPV(quantile=0, constant=True) was fitted and applied to the first
\* sample of the test dataset
W17_FirstSampleSieved ==
    /\ PPVZero(comp.sieve)
    /\ res = [op |-> "sieve.sieve", err |-> "ok",
              out |-> Array(1, <<Frac(3, 5), Frac(4, 5)>>)]

\* a fitted PPV with segments=True over the constants -5, 0 and 2
SegmentsOfConstants(sv) ==
    /\ sv.cls = "PPV" /\ sv.segments /\ sv.q.set
    /\ Len(sv.q_c_input) = 3
    /\ Range(sv.q_c_input) = {[q |-> v, c |-> TRUE] : v \in {-500, 0, 200}}

\* C18: a PPV with segments=True built from the constants 0, -5, 2 or
\* -5, 0, 2 stores them in ascending order, and its feature j on a series
\* is the number of values x with q_(j) <= x < q_(j+1) over the length of
\* the series: (0, 1/5) on (5, 8, 2, 6, 0) and (4/5, 0) on
\* (-5, -1, -4, -0.5, -8).
C18_SegmentsOverSortedConstants ==
    /\ (/\ Constructed /\ res.err = "ok" /\ res.arg.segments
        /\ Range(res.arg.quantile.val) = {-500, 0, 200}
        /\ res.arg.constant = One(TRUE))
          => comp.sieve.q_c_input = [j \in 1..3 |-> [q |-> <<-500, 0, 200>>[j], c |-> TRUE]]
    /\ SegmentsOfConstants(comp.sieve) =>
          /\ Sieve(comp.sieve, TestData[2]).out
                = Array(2, << <<Frac(0, 5), Frac(1, 5)>>, <<Frac(4, 5), Frac(0, 5)>> >>)
          /\ \A X \in Data2 :
                Sieve(comp.sieve, X).out
                   = Array(2, [i \in 1..Len(X) |-> [j \in 1..2 |->
                        Frac(Cardinality({t \in 1..Len(X[i]) :
                                 /\ <<-500, 0, 200>>[j] <= X[i][t]
                                 /\ X[i][t] < <<-500, 0, 200>>[j + 1]}),
                             Len(X[i]))]])

\* the segmented PPV over -5, 0, 2 was fitted and applied to the second
\* sample of the test dataset
W18_SecondSampleSieved ==
    /\ SegmentsOfConstants(comp.sieve)
    /\ res = [op |-> "sieve.sieve", err |-> "ok",
              out |-> Array(2, << <<Frac(0, 5), Frac(1, 5)>>,
                                  <<Frac(4, 5), Frac(0, 5)>> >>)]

\* C19: a PPV built from a list of quantiles and a list of constant flags
\* stores exactly the pairs (q_i, b_i) it was given, as often as given, and
\* with segments=True in ascending order of the quantiles.
C19_PairsKept ==
    (/\ Constructed /\ res.err = "ok"
     /\ res.arg.quantile.list /\ res.arg.constant.list)
      => LET given == Zip(res.arg.quantile.val, res.arg.constant.val)
             kept  == comp.sieve.q_c_input
         IN  /\ \A p \in Range(given) \cup Range(kept) :
                    Count(kept, p) = Count(given, p)
             /\ res.arg.segments =>
                    \A j \in 1..(Len(kept) - 1) : kept[j].q <= kept[j + 1].q

\* C20: after a successful fit of a PPV with segments=True the thresholds
\* are in nondecreasing order, and the bucket features of every series sum
\* to at most 1.
C20_ThresholdsSorted ==
    (res.op = "sieve.fit" /\ res.err = "ok" /\ comp.sieve.segments) =>
        /\ \A j \in 1..(Len(comp.sieve.q.val) - 1) :
              comp.sieve.q.val[j] <= comp.sieve.q.val[j + 1]
        /\ \A X \in Data2 : \A i \in 1..Len(X) :
              LET r == PPVSieve(comp.sieve, X)
                  row == IF r.out.rank = 1 THEN <<r.out.val[i]>> ELSE r.out.val[i]
              IN  r.err = "ok" =>
                     SumTo([j \in 1..Len(row) |-> row[j].num], Len(row)) <= Len(X[i])

\* C21: copy() of a constructed PPV or PPVC sieve succeeds and returns a
\* sieve with the same (quantile, constant) pairs, sample size and segments
\* flag, whose fit followed by sieve gives the output of the original on
\* every dataset and selection.
C21_SieveCopyEquivalent ==
    res.op = "sieve.copy" =>
        /\ res.err = "ok"
        /\ res.copy.q_c_input = comp.sieve.q_c_input
        /\ res.copy.sample_size = comp.sieve.sample_size
        /\ res.copy.segments = comp.sieve.segments
        /\ NFeatures(res.copy) = NFeatures(comp.sieve)
        /\ \A X \in Data2 : \A sel \in Selections(comp.sieve, X) :
              \E f \in {PPVFit(comp.sieve, X, sel)} :
              \E g \in {PPVFit(res.copy, X, sel)} :
                 /\ f.err = g.err
                 /\ f.err = "ok" => Sieve(f.obj, X) = Sieve(g.obj, X)

\* numpy.roll(a, 1) with the first entry set to 0
ShiftRight(a) == [t \in 1..Len(a) |-> IF t = 1 THEN 0 ELSE a[t - 1]]

\* inner * X[0] * X[1]**2, entry by entry
DocProduct(inner, X) == [t \in 1..Len(inner) |-> inner[t] * X[1][t] * X[2][t] * X[2][t]]

Squares(a) == [t \in 1..Len(a) |-> a[t] * a[t]]

\* C22: the iterated sum of SimpleWord("[11][122]") on a two-dimensional
\* series uses strictly earlier indices in the inner sum: it is
\* cumsum(inner * X0 * X1^2) with inner = cumsum(X0^2) shifted one step to
\* the right and 0 in the first position.
C22_InnerSumStrictlyEarlier ==
    (iss.phase = "done" /\ iss.name = DocWord) =>
        iss.S = CumSum(DocProduct(ShiftRight(CumSum(Squares(iss.X[1]))), iss.X))

\* the maximal runs of consecutive values >= thr in a series: one for every
\* index that holds such a value and follows none
Runs(x, thr) ==
    Cardinality({t \in 1..Len(x) : x[t] >= thr /\ (t = 1 \/ x[t - 1] < thr)})

\* every feature of a fitted PPVC is 2 * r / T and lies in [0, 1]
RunFeatures(sv, X) ==
    \E r \in {Sieve(sv, X)} :
        /\ r.err = "ok"
        /\ \A i \in 1..Len(X) : \A j \in 1..NFeatures(sv) :
              \E f \in {FeatureList(r.out, i)[j]} :
                 /\ f = Frac(2 * Runs(X[i], sv.q.val[j]), Len(X[i]))
                 /\ 0 <= f.num
                 /\ f.num <= f.den

\* a fitted PPVC(quantile=0, constant=True)
PPVCZero(sv) ==
    /\ sv.cls = "PPVC" /\ sv.q.set
    /\ sv.q_c_input = <<[q |-> 0, c |-> TRUE]>>

\* C24: each PPVC feature is 2*r/T, with T the series length and r the
\* number of maximal runs of consecutive values >= the threshold, a run at
\* the first index included (0.4 for both (-4, 0.8, 0, 5, -3) and
\* (2, 1, 0, 0, -7) at threshold 0), and the feature lies in [0, 1].
C24_RunsWithinUnit ==
    /\ PPVCZero(comp.sieve) =>
          Sieve(comp.sieve, TestData[1]).out = Array(1, <<Frac(2, 5), Frac(2, 5)>>)
    /\ (comp.sieve.cls = "PPVC" /\ comp.sieve.q.set) =>
          \A X \in Data2 :
              RunFeatures(comp.sieve, X)

\* the highest dimension a string of bracket groups refers to
HighestDim(name) ==
    SeqMax([i \in 1..Len(name) |-> IF IsDigit(name[i]) THEN DigitVal(name[i]) ELSE 0])

\* C25: after any sequence of multiply calls on a SimpleWord, in any order
\* of lower and higher dimensions, every extended letter of the word has the
\* same length, the highest dimension referenced so far.
C25_LettersShareLength ==
    (IsSimple("w") /\ last.err = "ok") =>
        \A i \in 1..Len(words["w"].els) :
            Len(heap[words["w"].els[i]]) = HighestDim(words["w"].name)

\* C26: for every string the grammar accepts, digits are 1-based dimension
\* indices: the name of a SimpleWord describes its letters group by group,
\* the exponent at index d-1 of each letter is the number of occurrences of
\* digit d in its group, the exponents sum to the number of digits of the
\* group, at least one is nonzero, and no call fails after it has changed
\* the name.
C26_DigitsAreDimensions ==
    IsSimple("w") =>
        LET gs  == GroupsOf(words["w"].name)
            els == Letters(words["w"], heap)
        IN  /\ Len(els) = Len(gs)
            /\ \A k \in 1..Min(Len(els), Len(gs)) :
                  /\ \A d \in 1..Len(els[k]) :
                        els[k][d] = Count(gs[k], AllDigits[d + 1])
                  /\ SumTo(els[k], Len(els[k])) = Len(gs[k])
                  /\ \E d \in 1..Len(els[k]) : els[k][d] > 0

\* C27: iterating over a Word yields each of its extended letters exactly
\* once and in order, also when a second iteration over the same Word is
\* started before the first has finished.
C27_IterationYieldsAll ==
    \A p \in LoopIds :
        /\ Len(loops.of[p].got) <= Len(words["w"].els)
        /\ \A i \in 1..Len(loops.of[p].got) : loops.of[p].got[i] = words["w"].els[i]
        /\ loops.of[p].phase = "done" => loops.of[p].got = words["w"].els

\* C28: after g.multiply(w) with a word w, g owns the letters it appended:
\* later multiply calls on w, with their padding when the dimension of w
\* grows, leave the extended letters of g unchanged.
C28_AppendedLettersOwned ==
    [][(words["g"].cls = "Word" /\ last'.op = "multiply" /\ last'.target = "w")
          => Letters(words'["g"], heap') = Letters(words["g"], heap)]_vars

\* C29: for every DOT its constructor accepts and every fit on series of
\* length T >= 1 the fitted step n satisfies 1 <= n <= T, and prepare then
\* succeeds, keeps exactly the values at the indices n-1, 2n-1, ...
\* (T div n positions), sets every other position to zero and leaves its
\* input as it was.
C29_DotStepWithinSeries ==
    comp.prep.cls = "DOT" =>
        \A X \in {D \in Data3 : D.rank = 3 /\ Shape2(D) >= 1} :
            \E f \in {DOTFit(comp.prep, X)} :
                /\ f.err = "ok"
                /\ 1 <= f.obj.n.val /\ f.obj.n.val <= Shape2(X)
                /\ \E r \in {DOTPrepare(f.obj, X)} :
                      /\ r.err = "ok"
                      /\ r.out = Array(3, [k \in 1..Len(X.val) |-> [i \in 1..Shape1(X) |->
                                    [j \in 1..Shape2(X) |->
                                        IF j % f.obj.n.val = 0 THEN X.val[k][i][j] ELSE 0]]])
                      /\ Cardinality({j \in 1..Shape2(X) : j % f.obj.n.val = 0})
                            = Shape2(X) \div f.obj.n.val

\* C30: calling a FeatureFilter with arguments returns a new filter
\* configured with them and leaves the positional and keyword arguments the
\* called filter holds as they were, so the shared PPV object keeps its
\* previous arguments; a call without positional arguments yields a filter
\* with no positional arguments.
C30_CallLeavesFilterAlone ==
    [][res'.op = "filter.call"
          => /\ comp'.filter = comp.filter
             /\ res'.err = "ok" => /\ res'.made.kwargs = res'.kwargs
                                   /\ res'.made.args = res'.args]_vars

====
